---- MODULE Spec2Model ----
(***************************************************************************)
(* A model of domainsd (tools/domainsd-cpp/domainsd.cpp): the keyed idle   *)
(* upstream pool, the per-client forwarding loop, admission, and the       *)
(* byte-level message readers and relays.                                  *)
(***************************************************************************)
EXTENDS Integers, Sequences, FiniteSets, TLC

\* ------------------------------------------------------------------ bounds
\* Upstream descriptors the process can have open at once.
MaxFd == 3

\* Connections the listener accepts in one run.
MaxConn == 3
\* Requests a client sends back to back on one connection.
MaxReqs == 2
\* The most bytes one recv returns.
MaxRecv == 32
\* The width of size_t in bits.
SizeBits == 6
\* The body length a Content-Length head declares.
ContentLengthOfL == 2
\* The number of versions the routes file goes through.
MaxFileVersion == 2
\* The number of reads with data each end of a tunnel can feed.
MaxTunnelData == 2

\* ------------------------------------------------- configuration and fixed
\* "no descriptor": the code's fd = -1.
NoFd == -1
\* std::string::npos.
npos == -1
g_pool_max_idle_per_key == 1
g_pool_max_idle_total == 2
g_pool_idle_timeout == 1
g_pool_max_age == 2
g_max_active_clients == 2

\* Route targets ("host:port" strings) the routes file maps hosts to.
Keys == {"k1", "k2"}
\* Client handler threads.
Handlers == {1, 2}
FDs == 1..MaxFd
\* Accepted client connections, in the order accept returns them.
Conns == 1..MaxConn

VARIABLES
  g_running,      \* g_running
  fd_open,        \* the upstream descriptors that are open
  fd_peer,        \* per descriptor, what a non-blocking peek would see
  fd_key,         \* per open descriptor, the host:port connect_upstream
                  \* connected it to
  by_key,         \* UpstreamPool::by_key_; a PooledConn holds its fd and, for
                  \* its two time points, the time elapsed since each
  idle_total,     \* UpstreamPool::idle_total_
  evicted,        \* how many idle connections the step just taken evicted
  h_pc,           \* per handler, its position in handle_client
  cached_fd,      \* handle_client: cached_upstream_fd
  cached_key,     \* handle_client: cached_upstream_key
  upstream_fd,    \* handle_client: upstream_fd of the current iteration
  used_cached,    \* handle_client: used_cached
  h_key,          \* handle_client: upstream_key of the current iteration
  h_upgrade,      \* handle_client: upgrade
  client_open,    \* per handler, whether its client_fd is open
  exit_event,     \* what the step just taken did if it ended a handler's loop
  g_active_clients,       \* g_active_clients
  g_overload_rejections,  \* g_overload_rejections
  acc_pc,         \* the accept loop's position in main
  prev,           \* try_acquire_client_slot: prev
  client_fd,      \* main: the connection accept returned (0: none)
  clients,        \* per accepted connection: how far its handling is, how often
                  \* the counter was incremented and decremented for it, and
                  \* how many handler threads ran when it was counted in
  health_read,    \* the active_clients value the last health response reported
  client_wire,    \* bytes the client has sent that no recv has returned yet
  rd,             \* read_request and decode_chunked_body: position and locals
  served,         \* the requests read_request returned and handle_client served
  upstream_wire,  \* bytes of the response that no recv has returned yet
  upstream_sent,  \* the response the upstream sends
  rl,             \* relay_response_and_decide_reuse and the body relays:
                  \* position, locals, and the bytes written to the client
  sess,           \* one client connection's handle_client loop: its position,
                  \* the request of the iteration, and what the iteration
                  \* wrote to the client and did with its upstream socket
  fd_age,         \* per upstream descriptor, the time since its connect
  p_held,         \* per upstream descriptor a caller got from pool.acquire and
                  \* still holds, the key it was acquired for
  routes,         \* RouteTable: the routes file, the table's members, each
                  \* looking-up thread's position and locals, and the results
                  \* of the lookups since the file last changed
  tun,            \* tunnel_bidirectional: the done flag, each pump_fd's position,
                  \* the shutdown state of the two sockets, and the caller's
                  \* position up to close(upstream_fd)
  lk,             \* UpstreamPool::mu_ and the threads inside acquire and release:
                  \* who holds the lock, each thread's position and loop index,
                  \* the number of idle entries, and who holds a socket
  p_last          \* the last pool call: its kind, its socket, whether the socket
                  \* came from an idle list, the socket's age and what a probe
                  \* of it saw at the call, and whether release kept it

poolVars == <<fd_open, fd_peer, fd_key, by_key, idle_total, evicted>>
handlerVars == <<h_pc, cached_fd, cached_key, upstream_fd, used_cached, h_key,
                 h_upgrade, client_open>>
proxyVars == <<g_running, poolVars, handlerVars, exit_event>>
admVars == <<g_active_clients, g_overload_rejections, acc_pc, prev, client_fd, clients,
             health_read>>
rdVars == <<client_wire, rd, served>>
rlVars == <<upstream_wire, upstream_sent, rl>>
sessVars == <<sess>>
poolUseVars == <<fd_age, p_held, p_last>>
\* The variables of the tunnel and of the pool's lock.
lateVars == <<tun, lk>>
extVars == <<sessVars, poolUseVars, routes, lateVars>>
vars == <<proxyVars, admVars, rdVars, rlVars, extVars>>

NoKey == ""

\* ------------------------------------------------------------ UpstreamPool

RECURSIVE SumLen(_, _)
SumLen(bk, ks) ==
  IF ks = {} THEN 0
  ELSE LET k == CHOOSE x \in ks : TRUE IN Len(bk[k]) + SumLen(bk, ks \ {k})

ConnFds(conns) == {conns[i].fd : i \in 1..Len(conns)}
PoolFds(bk) == UNION {ConnFds(bk[k]) : k \in Keys}

\* idle_total_ = idle_total_ > 0 ? idle_total_ - 1 : 0, n times over.
dec_idle_total(total, n) == IF total > n THEN total - n ELSE 0

socket_is_idle_usable(peer, fd) == peer[fd] = "clean"

\* since_used is now - conn.last_used_at, since_created is now - conn.created_at.
is_conn_fresh(conn) ==
  /\ ~(conn.since_used > g_pool_idle_timeout)
  /\ ~(conn.since_created > g_pool_max_age)

reap_keep(peer, conns) ==
  SelectSeq(conns, LAMBDA c : is_conn_fresh(c) /\ socket_is_idle_usable(peer, c.fd))

\* reap_locked with the decrement of idle_total_ left out.
reap_locked_no_decrement(peer, bk, total) ==
  LET nb == [k \in Keys |-> reap_keep(peer, bk[k])]
  IN [by_key |-> nb, idle_total |-> total, closed |-> PoolFds(bk) \ PoolFds(nb)]

\* reap_locked: the pool after the walk, and the descriptors it closed.
reap_locked(peer, bk, total) ==
  LET nb == [k \in Keys |-> reap_keep(peer, bk[k])]
  IN [by_key |-> nb,
      idle_total |-> dec_idle_total(total, SumLen(bk, Keys) - SumLen(nb, Keys)),
      closed |-> PoolFds(bk) \ PoolFds(nb)]

\* The pop loop of acquire without the liveness probe.
RECURSIVE pop_loop_no_probe(_, _, _, _)
pop_loop_no_probe(peer, conns, total, closed) ==
  IF conns = <<>>
  THEN [fd |-> NoFd, conns |-> conns, idle_total |-> total, closed |-> closed]
  ELSE LET conn == conns[Len(conns)]
           rest == SubSeq(conns, 1, Len(conns) - 1)
           t1 == dec_idle_total(total, 1)
       IN IF ~is_conn_fresh(conn)
          THEN pop_loop_no_probe(peer, rest, t1, closed \cup {conn.fd})
          ELSE [fd |-> conn.fd, conns |-> rest, idle_total |-> t1, closed |-> closed]

\* The pop loop of acquire on one key's list: the descriptor handed out (or
\* NoFd), the list left, the counter, and the descriptors closed on the way.
RECURSIVE pop_loop(_, _, _, _)
pop_loop(peer, conns, total, closed) ==
  IF conns = <<>>
  THEN [fd |-> NoFd, conns |-> conns, idle_total |-> total, closed |-> closed]
  ELSE LET conn == conns[Len(conns)]
           rest == SubSeq(conns, 1, Len(conns) - 1)
           t1 == dec_idle_total(total, 1)
       IN IF ~is_conn_fresh(conn) \/ ~socket_is_idle_usable(peer, conn.fd)
          THEN pop_loop(peer, rest, t1, closed \cup {conn.fd})
          ELSE [fd |-> conn.fd, conns |-> rest, idle_total |-> t1, closed |-> closed]

\* connect_upstream: a new descriptor (the lowest free one), or NoFd.
connect_upstream(open, ok) ==
  IF ok /\ FDs \ open # {}
  THEN CHOOSE f \in FDs \ open : \A g \in FDs \ open : f <= g
  ELSE NoFd

\* acquire that pops from the idle list of another key.
acquire_other_key(key, peer, peer2, open, bk, total, conn_ok) ==
  LET other == CHOOSE k \in Keys : k # key
      r == reap_locked(peer, bk, total)
      p == pop_loop(peer2, r.by_key[other], r.idle_total, {})
      open1 == open \ (r.closed \cup p.closed)
      fresh == connect_upstream(open1, conn_ok)
  IN [fd |-> IF p.fd # NoFd THEN p.fd ELSE fresh,
      from_idle |-> p.fd # NoFd,
      by_key |-> [r.by_key EXCEPT ![other] = p.conns],
      idle_total |-> p.idle_total,
      open |-> IF p.fd # NoFd \/ fresh = NoFd THEN open1 ELSE open1 \cup {fresh},
      evicted |-> Cardinality(r.closed \cup p.closed)]

\* UpstreamPool::acquire. peer is what reap_locked's probes see, peer2 what the
\* pop loop's probes see a moment later; conn_ok whether a connect would succeed.
acquire(key, peer, peer2, open, bk, total, conn_ok) ==
  LET r == reap_locked(peer, bk, total)
      p == pop_loop(peer2, r.by_key[key], r.idle_total, {})
      open1 == open \ (r.closed \cup p.closed)
      fresh == connect_upstream(open1, conn_ok)
  IN [fd |-> IF p.fd # NoFd THEN p.fd ELSE fresh,
      from_idle |-> p.fd # NoFd,
      by_key |-> [r.by_key EXCEPT ![key] = p.conns],
      idle_total |-> p.idle_total,
      open |-> IF p.fd # NoFd \/ fresh = NoFd THEN open1 ELSE open1 \cup {fresh},
      evicted |-> Cardinality(r.closed \cup p.closed)]

\* release with the per-key cap check left out.
release_no_per_key_cap(key, fd, peer, open, bk, total) ==
  IF fd < 0
  THEN [by_key |-> bk, idle_total |-> total, open |-> open, evicted |-> 0]
  ELSE IF ~socket_is_idle_usable(peer, fd)
  THEN [by_key |-> bk, idle_total |-> total, open |-> open \ {fd}, evicted |-> 0]
  ELSE LET r == reap_locked(peer, bk, total)
           open1 == open \ r.closed
           n == Cardinality(r.closed)
       IN IF r.idle_total >= g_pool_max_idle_total
          THEN [by_key |-> r.by_key, idle_total |-> r.idle_total, open |-> open1 \ {fd},
                evicted |-> n]
          ELSE [by_key |-> [r.by_key EXCEPT ![key] =
                              Append(@, [fd |-> fd, since_created |-> 0, since_used |-> 0])],
                idle_total |-> r.idle_total + 1,
                open |-> open1,
                evicted |-> n]

\* UpstreamPool::release.
release(key, fd, peer, open, bk, total) ==
  IF fd < 0
  THEN [by_key |-> bk, idle_total |-> total, open |-> open, evicted |-> 0]
  ELSE IF ~socket_is_idle_usable(peer, fd)
  THEN [by_key |-> bk, idle_total |-> total, open |-> open \ {fd}, evicted |-> 0]
  ELSE LET r == reap_locked(peer, bk, total)
           open1 == open \ r.closed
           n == Cardinality(r.closed)
       IN IF r.idle_total >= g_pool_max_idle_total
          THEN [by_key |-> r.by_key, idle_total |-> r.idle_total, open |-> open1 \ {fd},
                evicted |-> n]
          ELSE IF Len(r.by_key[key]) >= g_pool_max_idle_per_key
          THEN [by_key |-> r.by_key, idle_total |-> r.idle_total, open |-> open1 \ {fd},
                evicted |-> n]
          ELSE [by_key |-> [r.by_key EXCEPT ![key] =
                              Append(@, [fd |-> fd, since_created |-> 0, since_used |-> 0])],
                idle_total |-> r.idle_total + 1,
                open |-> open1,
                evicted |-> n]

\* UpstreamPool::discard.
discard(fd, open) == IF fd >= 0 THEN open \ {fd} ELSE open

\* A closed descriptor has no peer state; a new one starts clean.
peer_after(peer, open) ==
  [f \in FDs |-> IF f \notin open THEN "none"
                 ELSE IF peer[f] = "none" THEN "clean" ELSE peer[f]]


\* ----------------------------------------------------------- handle_client

\* release_cached that leaves the released socket in the cached slot.
release_cached_keeps_slot(cfd, ckey, peer, open, bk, total) ==
  IF cfd >= 0 /\ ckey # NoKey
  THEN LET r == release(ckey, cfd, peer, open, bk, total)
       IN [cached_fd |-> cfd, cached_key |-> ckey,
           by_key |-> r.by_key, idle_total |-> r.idle_total, open |-> r.open,
           evicted |-> r.evicted]
  ELSE [cached_fd |-> cfd, cached_key |-> ckey,
        by_key |-> bk, idle_total |-> total, open |-> open, evicted |-> 0]

\* The release_cached lambda: the cached slot and the pool afterwards.
release_cached(cfd, ckey, peer, open, bk, total) ==
  IF cfd >= 0 /\ ckey # NoKey
  THEN LET r == release(ckey, cfd, peer, open, bk, total)
       IN [cached_fd |-> NoFd, cached_key |-> NoKey,
           by_key |-> r.by_key, idle_total |-> r.idle_total, open |-> r.open,
           evicted |-> r.evicted]
  ELSE [cached_fd |-> cfd, cached_key |-> ckey,
        by_key |-> bk, idle_total |-> total, open |-> open, evicted |-> 0]

\* RelayOutcome of relay_response_and_decide_reuse (its two fields are always
\* equal), from the framing the response head selects, its Connection: close
\* flag, and whether the body relay ran to its end (for no_body: no stray
\* byte followed the head).
relay_outcome_length_any(kind, connection_close, complete) ==
  IF kind = "head_failed" THEN FALSE
  ELSE IF kind = "no_body" THEN complete /\ ~connection_close
  ELSE IF kind = "chunked" THEN complete /\ ~connection_close
  ELSE IF kind = "length" THEN ~connection_close
  ELSE FALSE

relay_outcome(kind, connection_close, complete) ==
  IF kind = "head_failed" THEN FALSE
  ELSE IF kind = "no_body" THEN complete /\ ~connection_close
  ELSE IF kind = "chunked" THEN complete /\ ~connection_close
  ELSE IF kind = "length" THEN complete /\ ~connection_close
  ELSE FALSE

RelayKinds == {"head_failed", "no_body", "chunked", "length", "until_eof"}

Locals(h, pc, ufd, uc, key, up) ==
  /\ h_pc' = [h_pc EXCEPT ![h] = pc]
  /\ upstream_fd' = [upstream_fd EXCEPT ![h] = ufd]
  /\ used_cached' = [used_cached EXCEPT ![h] = uc]
  /\ h_key' = [h_key EXCEPT ![h] = key]
  /\ h_upgrade' = [h_upgrade EXCEPT ![h] = up]

\* What the iteration that ended the loop did: whether send_all of the request
\* failed (the client then gets 502 "Failed to forward request"), where the
\* socket of that send came from, and whether a second socket was tried.
NoEvent == [origin |-> "none", sendfail |-> FALSE, retried |-> FALSE]

Ended(h, org, sf, rt) ==
  exit_event' = [origin |-> org, sendfail |-> sf, retried |-> rt]

\* The step leaves the handler in its loop, its client socket open.
NotEnded(h) ==
  /\ exit_event' = NoEvent
  /\ client_open' = client_open

\* A closed descriptor is connected to nothing; fresh is the descriptor
\* connect_upstream(key's host and port) returned in the step, if any.
keys_after(keys, open, fresh, key) ==
  [f \in FDs |-> IF f = fresh THEN key ELSE IF f \notin open THEN NoKey ELSE keys[f]]

\* The pool after a step in which connect_upstream returned fresh: a new
\* connection has no unread byte and an open peer, also when its descriptor
\* number is that of a socket closed earlier in the step.
SetPoolConnected(r, peer, fresh, key) ==
  /\ by_key' = r.by_key
  /\ idle_total' = r.idle_total
  /\ fd_open' = r.open
  /\ fd_peer' = [f \in FDs |-> IF f = fresh THEN "clean" ELSE peer_after(peer, r.open)[f]]
  /\ fd_key' = keys_after(fd_key, r.open, fresh, key)
  /\ evicted' = r.evicted

SetPool(r, peer) == SetPoolConnected(r, peer, NoFd, NoKey)

\* The step does not enter the pool.
KeepPool ==
  /\ evicted' = 0
  /\ UNCHANGED <<fd_open, fd_peer, fd_key, by_key, idle_total>>

SetCached(h, cfd, ckey) ==
  /\ cached_fd' = [cached_fd EXCEPT ![h] = cfd]
  /\ cached_key' = [cached_key EXCEPT ![h] = ckey]

\* The loop is left without release_cached: the cached socket stays with the
\* handler that ends.
LoopExit_keeps_cached(h, cfd, ckey, peer, open, bk, total, ev, org, sf, rt) ==
  /\ SetCached(h, cfd, ckey)
  /\ SetPool([by_key |-> bk, idle_total |-> total, open |-> open, evicted |-> ev], peer)
  /\ Locals(h, "idle", NoFd, FALSE, NoKey, FALSE)
  /\ Ended(h, org, sf, rt)
  /\ client_open' = [client_open EXCEPT ![h] = FALSE]

\* The loop is left: release_cached, close(client_fd), and the thread ends.
\* cfd, ckey, open, bk, total are the cached slot and the pool as the
\* iteration leaves them.
LoopExit(h, cfd, ckey, peer, open, bk, total, ev, org, sf, rt) ==
  LET r == release_cached(cfd, ckey, peer, open, bk, total)
  IN /\ SetCached(h, r.cached_fd, r.cached_key)
     /\ SetPool([r EXCEPT !.evicted = @ + ev], peer)
     /\ Locals(h, "idle", NoFd, FALSE, NoKey, FALSE)
     /\ Ended(h, org, sf, rt)
     /\ client_open' = [client_open EXCEPT ![h] = FALSE]

\* main: a handler thread is started for an admitted connection.
Spawn(h) ==
  /\ g_running
  /\ h_pc[h] = "idle"
  /\ Locals(h, "read", NoFd, FALSE, NoKey, FALSE)
  /\ exit_event' = NoEvent
  /\ client_open' = [client_open EXCEPT ![h] = TRUE]
  /\ KeepPool
  /\ UNCHANGED <<extVars, admVars, rdVars, rlVars, g_running, cached_fd, cached_key>>

\* The while condition of handle_client fails after shutdown.
LoopEnd(h) ==
  /\ h_pc[h] = "read"
  /\ ~g_running
  /\ LoopExit(h, cached_fd[h], cached_key[h], fd_peer, fd_open, by_key, idle_total, 0,
              "none", FALSE, FALSE)
  /\ UNCHANGED <<extVars, admVars, rdVars, rlVars, g_running, admVars, rdVars, rlVars>>

\* An iteration that ends the loop before any upstream is chosen: the client
\* closed, a parse error or a missing Host (400), no route (404), an invalid
\* target (502), or a health response not followed by keep-alive.
EndBeforeUpstream(h) ==
  /\ h_pc[h] = "read"
  /\ g_running
  /\ LoopExit(h, cached_fd[h], cached_key[h], fd_peer, fd_open, by_key, idle_total, 0,
              "none", FALSE, FALSE)
  /\ UNCHANGED <<extVars, admVars, rdVars, rlVars, g_running, admVars, rdVars, rlVars>>

\* A health request answered with keep-alive: the loop continues.
HealthKeepAlive(h) ==
  /\ h_pc[h] = "read"
  /\ g_running
  /\ NotEnded(h)
  /\ KeepPool
  /\ UNCHANGED <<extVars, admVars, rdVars, rlVars, g_running, handlerVars>>

\* What the probes of the pop loop see when the peers in dying have closed
\* since reap_locked probed them.
PeerDying(peer, dying) == [f \in FDs |-> IF f \in dying THEN "dirty" ELSE peer[f]]

\* The upgrade path takes an idle socket where the pool has one.
connect_only_takes_idle(open, bk, total, conn_ok) ==
  LET fresh == connect_upstream(open, conn_ok)
      idle == PoolFds(bk)
      got == IF idle # {} THEN CHOOSE f \in idle : TRUE ELSE fresh
  IN [fd |-> got, from_idle |-> idle # {}, by_key |-> bk, idle_total |-> total,
      open |-> IF got = NoFd THEN open ELSE open \cup {got}, evicted |-> 0]

\* connect_upstream as the upgrade path calls it, in the shape of acquire.
connect_only(open, bk, total, conn_ok) ==
  LET fresh == connect_upstream(open, conn_ok)
  IN [fd |-> fresh, from_idle |-> FALSE, by_key |-> bk, idle_total |-> total,
      open |-> IF fresh = NoFd THEN open ELSE open \cup {fresh}, evicted |-> 0]

\* Does a failed send_all on this socket get a second socket?
retries_after_send_failure(upgrade, was_cached) == ~upgrade /\ was_cached

\* A routed request whose upstream is the cached socket (its key matches):
\* send_all on it, and after a failure discard_cached, pool.acquire and one
\* more send_all.
RouteCached(h) ==
  /\ h_pc[h] = "read"
  /\ g_running
  /\ cached_fd[h] >= 0
  /\ LET key == cached_key[h]
     IN \/ /\ Locals(h, "relay", cached_fd[h], TRUE, key, FALSE)
           /\ NotEnded(h)
           /\ KeepPool
           /\ UNCHANGED <<cached_fd, cached_key>>
        \/ /\ retries_after_send_failure(FALSE, TRUE)
           /\ \E conn_ok \in BOOLEAN, ok2 \in BOOLEAN, dying \in SUBSET ConnFds(by_key[key]) :
                LET peer2 == PeerDying(fd_peer, dying)
                    a == acquire(key, fd_peer, peer2, discard(cached_fd[h], fd_open),
                                 by_key, idle_total, conn_ok)
                IN IF a.fd >= 0 /\ ok2
                   THEN /\ SetCached(h, NoFd, NoKey)
                        /\ SetPoolConnected(a, peer2,
                                            IF a.from_idle THEN NoFd ELSE a.fd, key)
                        /\ Locals(h, "relay", a.fd, FALSE, key, FALSE)
                        /\ NotEnded(h)
                   ELSE LoopExit(h, NoFd, NoKey, peer2, discard(a.fd, a.open), a.by_key,
                                 a.idle_total, a.evicted, "cached", TRUE, TRUE)
        \/ /\ ~retries_after_send_failure(FALSE, TRUE)
           /\ LoopExit(h, NoFd, NoKey, fd_peer, discard(cached_fd[h], fd_open), by_key,
                       idle_total, 0, "cached", TRUE, FALSE)
  /\ UNCHANGED <<extVars, admVars, rdVars, rlVars, g_running, admVars, rdVars, rlVars>>

\* A routed request that cannot use the cached socket (an upgrade, no cached
\* socket, or another key): release_cached, then on to acquire or connect.
RouteOther(h) ==
  /\ h_pc[h] = "read"
  /\ g_running
  /\ \E key \in Keys, up \in BOOLEAN :
       /\ ~(~up /\ cached_fd[h] >= 0 /\ cached_key[h] = key)
       /\ LET r == release_cached(cached_fd[h], cached_key[h], fd_peer,
                                  fd_open, by_key, idle_total)
          IN /\ Locals(h, "acquire", NoFd, FALSE, key, up)
             /\ SetCached(h, r.cached_fd, r.cached_key)
             /\ SetPool(r, fd_peer)
  /\ NotEnded(h)
  /\ UNCHANGED <<extVars, admVars, rdVars, rlVars, g_running, admVars, rdVars, rlVars>>

\* The upstream of the iteration (connect_upstream for an upgrade, else
\* pool.acquire; 504 or 502 when there is none) and send_all of the request
\* on it; the socket is not the cached one.
Acquire(h) ==
  /\ h_pc[h] = "acquire"
  /\ \E conn_ok \in BOOLEAN, ok \in BOOLEAN, dying \in SUBSET ConnFds(by_key[h_key[h]]) :
       LET peer2 == IF h_upgrade[h] THEN fd_peer ELSE PeerDying(fd_peer, dying)
           a == IF h_upgrade[h]
                THEN connect_only(fd_open, by_key, idle_total, conn_ok)
                ELSE acquire(h_key[h], fd_peer, peer2, fd_open, by_key,
                             idle_total, conn_ok)
           org == IF a.from_idle THEN "idle" ELSE "fresh"
       IN IF a.fd < 0
          THEN LoopExit(h, cached_fd[h], cached_key[h], peer2, a.open, a.by_key,
                        a.idle_total, a.evicted, "none", FALSE, FALSE)
          ELSE IF ok
          THEN /\ SetPoolConnected(a, peer2, IF a.from_idle THEN NoFd ELSE a.fd,
                                   h_key[h])
               /\ Locals(h, IF h_upgrade[h] THEN "tunnel" ELSE "relay", a.fd, FALSE,
                         h_key[h], h_upgrade[h])
               /\ NotEnded(h)
               /\ UNCHANGED <<cached_fd, cached_key>>
          ELSE /\ ~retries_after_send_failure(h_upgrade[h], FALSE)
               /\ LoopExit(h, cached_fd[h], cached_key[h], peer2, discard(a.fd, a.open),
                           a.by_key, a.idle_total, a.evicted, org, TRUE, FALSE)
  /\ UNCHANGED <<extVars, admVars, rdVars, rlVars, g_running, admVars, rdVars, rlVars>>

\* The upgrade path: leftover bytes, the tunnel, then close(upstream_fd).
Tunnel(h) ==
  /\ h_pc[h] = "tunnel"
  /\ LoopExit(h, cached_fd[h], cached_key[h], fd_peer, discard(upstream_fd[h], fd_open),
              by_key, idle_total, 0, "none", FALSE, FALSE)
  /\ UNCHANGED <<extVars, admVars, rdVars, rlVars, g_running, admVars, rdVars, rlVars>>

\* relay_response_and_decide_reuse, the reuse decision after it, and the
\* keep-alive decision that ends the iteration.
Relay(h) ==
  /\ h_pc[h] = "relay"
  /\ \E ka \in BOOLEAN,
        reusable \in {relay_outcome(kind, cc, complete) :
                        kind \in RelayKinds, cc \in BOOLEAN, complete \in BOOLEAN} :
       LET cfd == IF reusable THEN upstream_fd[h]
                  ELSE IF used_cached[h] THEN NoFd ELSE cached_fd[h]
           ckey == IF reusable THEN h_key[h]
                   ELSE IF used_cached[h] THEN NoKey ELSE cached_key[h]
           open == IF reusable THEN fd_open ELSE discard(upstream_fd[h], fd_open)
       IN IF ka /\ reusable
          THEN /\ SetCached(h, cfd, ckey)
               /\ KeepPool
               /\ Locals(h, "read", NoFd, FALSE, NoKey, FALSE)
               /\ NotEnded(h)
          ELSE LoopExit(h, cfd, ckey, fd_peer, open, by_key, idle_total, 0,
                        "none", FALSE, FALSE)
  /\ UNCHANGED <<extVars, admVars, rdVars, rlVars, g_running, admVars, rdVars, rlVars>>

\* ------------------------------------------------------------- environment

\* The clock advances by one unit: every idle connection is one unit older.
\* Once a connection is past a limit it stays past it, and how far past is
\* not told apart.
older(conn) ==
  IF is_conn_fresh(conn)
  THEN [conn EXCEPT !.since_created = @ + 1, !.since_used = @ + 1]
  ELSE conn

Tick ==
  /\ by_key' = [k \in Keys |-> [i \in 1..Len(by_key[k]) |-> older(by_key[k][i])]]
  /\ exit_event' = NoEvent
  /\ evicted' = 0
  /\ UNCHANGED <<extVars, admVars, rdVars, rlVars, g_running, fd_open, fd_key, fd_peer, idle_total, handlerVars>>

\* An upstream closes its end of a connection, or sends bytes unasked: a
\* non-blocking peek no longer answers EAGAIN.
PeerChange(f) ==
  /\ f \in fd_open
  /\ fd_peer[f] = "clean"
  /\ fd_peer' = [fd_peer EXCEPT ![f] = "dirty"]
  /\ exit_event' = NoEvent
  /\ evicted' = 0
  /\ UNCHANGED <<extVars, admVars, rdVars, rlVars, g_running, fd_open, fd_key, by_key, idle_total, handlerVars>>

\* on_signal.
Shutdown ==
  /\ g_running
  /\ g_running' = FALSE
  /\ exit_event' = NoEvent
  /\ KeepPool
  /\ UNCHANGED <<extVars, handlerVars, admVars, rdVars, rlVars>>

\* ------------------------------------------------------ admission (main)

fetch_add(v) == v + 1
fetch_sub(v) == v - 1

\* The test with > in place of >=.
slot_available_at_limit(p) == ~(p > g_max_active_clients)

\* try_acquire_client_slot: the test on the value fetch_add returned.
slot_available(p) == ~(p >= g_max_active_clients)

\* release_client_slot that leaves the counter as it is.
release_client_slot_keeps_count(active) == active

release_client_slot(active) == fetch_sub(active)

\* The handler threads that run: started, and their SlotGuard not yet destroyed.
RunningHandlers == {c \in Conns : clients[c].state \in {"handling", "returned"}}

NoConn == [state |-> "none", incs |-> 0, decs |-> 0, busy |-> 0]

\* accept returns the next client.
Accept ==
  /\ g_running
  /\ acc_pc = "accept"
  /\ \E c \in Conns :
       /\ clients[c].state = "none"
       /\ \A d \in Conns : d < c => clients[d].state # "none"
       /\ clients' = [clients EXCEPT ![c].state = "accepted"]
       /\ client_fd' = c
  /\ acc_pc' = "try"
  /\ UNCHANGED <<extVars, proxyVars, rdVars, rlVars, g_active_clients, g_overload_rejections, prev, health_read>>

\* try_acquire_client_slot: prev = g_active_clients.fetch_add(1).
TryAcquireFetchAdd ==
  /\ acc_pc = "try"
  /\ prev' = g_active_clients
  /\ g_active_clients' = fetch_add(g_active_clients)
  /\ clients' = [clients EXCEPT ![client_fd].incs = @ + 1,
                          ![client_fd].busy = Cardinality(RunningHandlers)]
  /\ acc_pc' = IF slot_available(g_active_clients) THEN "spawn" ELSE "undo"
  /\ UNCHANGED <<extVars, proxyVars, rdVars, rlVars, g_overload_rejections, client_fd, health_read>>

\* try_acquire_client_slot: g_active_clients.fetch_sub(1) on the refusing path.
TryAcquireUndo ==
  /\ acc_pc = "undo"
  /\ g_active_clients' = fetch_sub(g_active_clients)
  /\ clients' = [clients EXCEPT ![client_fd].decs = @ + 1]
  /\ acc_pc' = "count"
  /\ UNCHANGED <<extVars, proxyVars, rdVars, rlVars, g_overload_rejections, prev, client_fd, health_read>>

\* try_acquire_client_slot: g_overload_rejections.fetch_add(1); return false.
TryAcquireCount ==
  /\ acc_pc = "count"
  /\ g_overload_rejections' = fetch_add(g_overload_rejections)
  /\ clients' = [clients EXCEPT ![client_fd].state = "refused"]
  /\ acc_pc' = "reject"
  /\ UNCHANGED <<extVars, proxyVars, rdVars, rlVars, g_active_clients, prev, client_fd, health_read>>

\* main: the 503 response, close(client_fd), continue.
Reject503 ==
  /\ acc_pc = "reject"
  /\ clients' = [clients EXCEPT ![client_fd].state = "rejected"]
  /\ client_fd' = 0
  /\ acc_pc' = "accept"
  /\ UNCHANGED <<extVars, proxyVars, rdVars, rlVars, g_active_clients, g_overload_rejections, prev, health_read>>

\* main: the detached handler thread is started.
StartHandler ==
  /\ acc_pc = "spawn"
  /\ clients' = [clients EXCEPT ![client_fd].state = "handling"]
  /\ client_fd' = 0
  /\ acc_pc' = "accept"
  /\ UNCHANGED <<extVars, proxyVars, rdVars, rlVars, g_active_clients, g_overload_rejections, prev, health_read>>

\* handle_client builds a health response: it loads g_active_clients.
HandlerHealth(c) ==
  /\ clients[c].state = "handling"
  /\ health_read' = g_active_clients
  /\ UNCHANGED <<extVars, proxyVars, rdVars, rlVars, g_active_clients, g_overload_rejections, acc_pc, prev,
                 client_fd, clients>>

\* handle_client returns, by whichever exit of its loop.
HandlerReturn(c) ==
  /\ clients[c].state = "handling"
  /\ clients' = [clients EXCEPT ![c].state = "returned"]
  /\ UNCHANGED <<extVars, proxyVars, rdVars, rlVars, g_active_clients, g_overload_rejections, acc_pc, prev,
                 client_fd, health_read>>

\* ~SlotGuard at the end of the handler thread.
SlotGuardRelease(c) ==
  /\ clients[c].state = "returned"
  /\ g_active_clients' = release_client_slot(g_active_clients)
  /\ clients' = [clients EXCEPT ![c].state = "closed", ![c].decs = @ + 1]
  /\ UNCHANGED <<extVars, proxyVars, rdVars, rlVars, g_overload_rejections, acc_pc, prev, client_fd, health_read>>

\* ------------------------------------------------------------ byte strings
\* A std::string is a sequence of one-character strings; positions count
\* from 0 as in the code.

CR == "\r"
LF == "\n"
CRLF == <<CR, LF>>
CRLFCRLF == <<CR, LF, CR, LF>>

\* size_t arithmetic, SizeBits wide.
SizeMod == 2 ^ SizeBits
wrap(n) == n % SizeMod

Min(a, b) == IF a < b THEN a ELSE b
Max(a, b) == IF a > b THEN a ELSE b

\* s.substr(pos, n) and s.substr(pos).
substr(s, pos, n) == SubSeq(s, pos + 1, Min(pos + n, Len(s)))
substr_from(s, pos) == SubSeq(s, pos + 1, Len(s))

\* s.find(pat, from): the first position at or after from where pat starts.
find(s, pat, from) ==
  LET hits == {i \in from..(Len(s) - Len(pat)) : SubSeq(s, i + 1, i + Len(pat)) = pat}
  IN IF hits = {} THEN npos ELSE CHOOSE i \in hits : \A j \in hits : i <= j

isspace(c) == c \in {" ", "\t", CR, LF}

RECURSIVE trim_left(_)
trim_left(s) == IF s # <<>> /\ isspace(Head(s)) THEN trim_left(Tail(s)) ELSE s

RECURSIVE trim_right(_)
trim_right(s) ==
  IF s # <<>> /\ isspace(s[Len(s)]) THEN trim_right(SubSeq(s, 1, Len(s) - 1)) ELSE s

trim(s) == trim_right(trim_left(s))

HexChars == <<"0", "1", "2", "3", "4", "5", "6", "7", "8", "9",
              "a", "b", "c", "d", "e", "f">>

\* The value of a hexadecimal digit, -1 for any other character.
hex_digit(c) ==
  IF \E i \in 1..Len(HexChars) : HexChars[i] = c
  THEN (CHOOSE i \in 1..Len(HexChars) : HexChars[i] = c) - 1
  ELSE -1

\* std::stoull(s, nullptr, 16) on the digits at the start of s: acc is the
\* value so far, -1 while no digit was seen; the result is -1 where stoull
\* throws (no digit: invalid_argument; a value beyond the width: out_of_range).
RECURSIVE stoull16(_, _)
stoull16(s, acc) ==
  IF s = <<>> \/ hex_digit(Head(s)) < 0
  THEN acc
  ELSE LET v == (IF acc < 0 THEN 0 ELSE acc) * 16 + hex_digit(Head(s))
       IN IF v >= SizeMod THEN -1 ELSE stoull16(Tail(s), v)

\* The chunk size a chunk-size line declares, -1 where the code gives up.
chunk_size_of(raw_line) ==
  LET line == trim(raw_line)
      semi == find(line, <<";">>, 0)
      size_str == IF semi = npos THEN line ELSE substr(line, 0, semi)
  IN stoull16(size_str, -1)

\* --------------------------------------- read_request, decode_chunked_body
\* The limit on a header block, 1 MiB in the code, here twice the largest read.
kMaxHeaderBytes == 2 * MaxRecv

\* A request head is one letter, optional header marks and the empty line: G
\* has no body, L has Content-Length: 2, P has Transfer-Encoding: chunked; the
\* mark l is a Content-Length: 2 header, the mark b a Content-Length header
\* whose value is not a number. The head's first line does not parse as a
\* request line when it starts with anything else.

request_framing(headers_blob) ==
  LET k == headers_blob[1]
      has(c) == \E i \in 2..Len(headers_blob) : headers_blob[i] = c
      failed == [ok |-> FALSE, chunked |-> FALSE, content_length |-> 0]
  IN IF k \notin {"G", "L", "P"} THEN failed
     ELSE IF has("b") THEN failed
     ELSE [ok |-> TRUE, chunked |-> k = "P",
           content_length |-> IF k = "L" \/ has("l") THEN ContentLengthOfL ELSE 0]

\* read_request is entered with the pending bytes; start is the offset in the
\* client's byte stream of the first of them.
ReadEntry(pending, start) ==
  [pc |-> "header", buf |-> pending, cursor |-> 0, chunk_size |-> 0, need |-> 0,
   content_length |-> 0, chunked |-> FALSE, body |-> <<>>, body_hi |-> start,
   base |-> start, start |-> start, headers_len |-> 0]

ReadReturn(st, body, hi, leftover_at) ==
  [st EXCEPT !.pc = "returned", !.body = body, !.body_hi = hi,
             !.buf = substr_from(st.buf, leftover_at),
             !.base = st.base + leftover_at, !.cursor = 0]

ReadFail(st) == [st EXCEPT !.pc = "failed"]

\* read_request and decode_chunked_body run from the position st.pc until
\* they return or wait in recv for more bytes. body_hi is the offset in the
\* client's byte stream just past the last byte copied into the body.
RECURSIVE read_run(_)
read_run(st) ==
  IF st.pc = "header" THEN
    LET header_end == find(st.buf, CRLFCRLF, 0)
        headers_len == header_end + 4
        fr == request_framing(substr(st.buf, 0, headers_len))
        initial == substr_from(st.buf, headers_len)
    IN IF header_end = npos
       THEN IF Len(st.buf) > kMaxHeaderBytes THEN ReadFail(st) ELSE st
       ELSE IF ~fr.ok THEN ReadFail(st)
       ELSE IF fr.chunked
       THEN read_run([st EXCEPT !.pc = "chunk_line", !.chunked = TRUE, !.buf = initial,
                                !.base = st.base + headers_len, !.cursor = 0,
                                !.body_hi = st.base + headers_len,
                                !.headers_len = headers_len])
       ELSE read_run([st EXCEPT !.pc = "length_body", !.buf = initial,
                                !.content_length = fr.content_length,
                                !.base = st.base + headers_len,
                                !.body_hi = st.base + headers_len,
                                !.headers_len = headers_len])
  ELSE IF st.pc = "length_body" THEN
    IF Len(st.buf) >= st.content_length
    THEN ReadReturn(st, substr(st.buf, 0, st.content_length),
                    st.base + st.content_length, st.content_length)
    ELSE st
  ELSE IF st.pc = "chunk_line" THEN
    LET line_end == find(st.buf, CRLF, st.cursor)
        size == chunk_size_of(substr(st.buf, st.cursor, line_end - st.cursor))
        cursor == line_end + 2
    IN IF line_end = npos THEN st
       ELSE IF size < 0 THEN ReadFail(st)
       ELSE read_run([st EXCEPT !.pc = "chunk_need", !.cursor = cursor,
                                !.chunk_size = size, !.need = wrap(cursor + size + 2)])
  ELSE IF st.pc = "chunk_need" THEN
    IF Len(st.buf) < st.need THEN st
    ELSE IF st.chunk_size = 0 THEN read_run([st EXCEPT !.pc = "trailer"])
    ELSE LET piece == substr(st.buf, st.cursor, st.chunk_size)
             cursor == wrap(st.cursor + st.chunk_size)
         IN IF substr(st.buf, cursor, 2) # CRLF THEN ReadFail(st)
            ELSE read_run([st EXCEPT !.pc = "chunk_line",
                                     !.body = st.body \o piece,
                                     !.body_hi = Max(st.body_hi,
                                                     st.base + st.cursor + Len(piece)),
                                     !.cursor = wrap(cursor + 2)])
  ELSE IF st.pc = "trailer" THEN
    LET trailer_end == find(st.buf, CRLF, st.cursor)
        cursor == trailer_end + 2
    IN IF trailer_end = npos THEN st
       ELSE IF trailer_end = st.cursor THEN ReadReturn(st, st.body, st.body_hi, cursor)
       ELSE read_run([st EXCEPT !.cursor = cursor])
  ELSE st

ReadWaits(st) == st.pc \in {"header", "length_body", "chunk_line", "chunk_need", "trailer"}

\* The requests a client sends.
ReqGet == <<"G">> \o CRLFCRLF
ReqLength == <<"L">> \o CRLFCRLF \o [i \in 1..ContentLengthOfL |-> "z"]
ReqChunked == <<"P">> \o CRLFCRLF \o <<"1">> \o CRLF \o <<"z">> \o CRLF
                \o <<"0">> \o CRLFCRLF
\* A chunked request whose first chunk-size line declares 2^SizeBits - 2 bytes.
HugeSizeLine == <<HexChars[((SizeMod - 2) \div 16) + 1], HexChars[((SizeMod - 2) % 16) + 1]>>
ReqHugeChunk == <<"P">> \o CRLFCRLF \o HugeSizeLine \o CRLF \o <<"0">> \o CRLFCRLF

\* ReqChunked with a Content-Length header beside Transfer-Encoding: chunked.
ChunkedWithLength(mark) == <<"P", mark>> \o SubSeq(ReqChunked, 2, Len(ReqChunked))
ReqChunkedLength == ChunkedWithLength("l")
ReqChunkedBadLength == ChunkedWithLength("b")

\* A request whose header block is two bytes longer than kMaxHeaderBytes.
ReqLongHead == <<"G">> \o [i \in 1..(kMaxHeaderBytes - 3) |-> "-"] \o CRLFCRLF

Requests == {ReqGet, ReqLength, ReqChunked, ReqHugeChunk, ReqChunkedLength,
             ReqChunkedBadLength, ReqLongHead}

RECURSIVE Pipelines(_)
\* The byte streams of 1..n requests sent back to back.
Pipelines(n) ==
  IF n = 0 THEN {<<>>}
  ELSE LET shorter == Pipelines(n - 1)
       IN shorter \cup {p \o r : p \in shorter, r \in Requests}

\* recv on the client socket returns the next n bytes.
ClientRecv(n) ==
  /\ ReadWaits(rd)
  /\ n \in 1..Len(client_wire)
  /\ rd' = read_run([rd EXCEPT !.buf = rd.buf \o SubSeq(client_wire, 1, n)])
  /\ client_wire' = SubSeq(client_wire, n + 1, Len(client_wire))
  /\ UNCHANGED <<extVars, proxyVars, admVars, rlVars, served>>

\* recv returns 0: the client has sent all it had and closed.
ClientClosed ==
  /\ ReadWaits(rd)
  /\ client_wire = <<>>
  /\ rd' = ReadFail(rd)
  /\ UNCHANGED <<extVars, proxyVars, admVars, rlVars, client_wire, served>>

\* handle_client serves the request read_request returned, writes the whole
\* response, and on keep-alive calls read_request again with the pending bytes.
ServeRequest ==
  /\ rd.pc = "returned"
  /\ served' = Append(served, [start |-> rd.start, end |-> rd.base,
                               chunked |-> rd.chunked, body |-> rd.body,
                               body_hi |-> rd.body_hi])
  /\ \E keepalive \in BOOLEAN :
       rd' = IF keepalive THEN read_run(ReadEntry(rd.buf, rd.base))
             ELSE [rd EXCEPT !.pc = "closed"]
  /\ UNCHANGED <<extVars, proxyVars, admVars, rlVars, client_wire>>

InitReaderIdle ==
  /\ client_wire = <<>>
  /\ rd = [ReadEntry(<<>>, 0) EXCEPT !.pc = "closed"]
  /\ served = <<>>

InitReader ==
  /\ client_wire \in Pipelines(MaxReqs) \ {<<>>}
  /\ rd = read_run(ReadEntry(<<>>, 0))
  /\ served = <<>>

\* ------------- relay_response_and_decide_reuse and the body relays it calls
\* A response head is one letter, optional header marks and the empty line.
\* The letter: C is a 200 with Transfer-Encoding: chunked, L a 200 with
\* Content-Length: 2, U a 200 that declares no framing, N a status without a
\* body (204), I an interim status (100), H a 200 that answers a HEAD request.
\* The marks: X is Connection: close, c is Transfer-Encoding: chunked, l is
\* Content-Length: 2.

parse_response_headers(raw_headers) ==
  LET k == raw_headers[1]
      has(c) == \E i \in 2..Len(raw_headers) : raw_headers[i] = c
      chunked == k = "C" \/ has("c")
      length == k = "L" \/ has("l")
      no_body == k \in {"N", "I", "H"}
  IN [ok |-> k \in {"C", "L", "N", "I", "H", "U"},
      chunked |-> chunked /\ ~no_body,
      no_body |-> no_body,
      has_length |-> length \/ no_body,
      content_length |-> IF length /\ ~no_body THEN ContentLengthOfL ELSE 0,
      connection_close |-> has("X")]

\* The framing relay_response_and_decide_reuse selects, as relay_outcome names it.
relay_kind(meta) ==
  IF ~meta.ok THEN "head_failed"
  ELSE IF meta.no_body THEN "no_body"
  ELSE IF meta.chunked THEN "chunked"
  ELSE IF meta.has_length THEN "length"
  ELSE "until_eof"

RelayEntry ==
  [pc |-> "head", buf |-> <<>>, cursor |-> 0, chunk_size |-> 0, need |-> 0,
   content_length |-> 0, sent |-> 0, kind |-> "head_failed",
   connection_close |-> FALSE, complete |-> FALSE, upstream_reusable |-> FALSE,
   out |-> <<>>]

\* The relay returns: complete is what the body relay reported.
RelayReturn(st, complete) ==
  [st EXCEPT !.pc = "done", !.complete = complete,
             !.upstream_reusable = relay_outcome(st.kind, st.connection_close, complete)]

\* relay_response_and_decide_reuse, relay_chunked_body and
\* relay_body_with_length run from the position st.pc until they return or
\* wait in recv; out collects the bytes written to the client.
RECURSIVE relay_run(_)
relay_run(st) ==
  IF st.pc = "head" THEN
    LET header_end == find(st.buf, CRLFCRLF, 0)
        hdr_len == header_end + 4
        raw_headers == substr(st.buf, 0, hdr_len)
        meta == parse_response_headers(raw_headers)
        body_buf == substr_from(st.buf, hdr_len)
        st1 == [st EXCEPT !.kind = relay_kind(meta),
                          !.connection_close = meta.connection_close,
                          !.content_length = meta.content_length,
                          !.out = st.out \o raw_headers,
                          !.buf = body_buf, !.cursor = 0]
    IN IF header_end = npos
       THEN IF Len(st.buf) > kMaxHeaderBytes THEN RelayReturn(st, FALSE) ELSE st
       ELSE IF ~meta.ok THEN RelayReturn(st, FALSE)
       ELSE IF meta.no_body
       THEN IF body_buf # <<>>
            THEN RelayReturn([st1 EXCEPT !.out = @ \o body_buf], FALSE)
            ELSE RelayReturn(st1, TRUE)
       ELSE IF meta.chunked THEN relay_run([st1 EXCEPT !.pc = "chunk_line"])
       ELSE IF meta.has_length
       THEN LET first == Min(Len(body_buf), meta.content_length)
                st2 == [st1 EXCEPT !.out = @ \o substr(body_buf, 0, first),
                                   !.sent = first, !.buf = <<>>]
            IN IF Len(body_buf) > meta.content_length THEN RelayReturn(st2, FALSE)
               ELSE relay_run([st2 EXCEPT !.pc = "length_body"])
       ELSE [st1 EXCEPT !.pc = "until_eof", !.out = @ \o body_buf, !.buf = <<>>]
  ELSE IF st.pc = "length_body" THEN
    \* st.buf holds what the last recv returned (tmp)
    LET to_send == Min(Len(st.buf), st.content_length - st.sent)
        st1 == [st EXCEPT !.out = @ \o substr(st.buf, 0, to_send),
                          !.sent = @ + to_send, !.buf = <<>>]
    IN IF Len(st.buf) > to_send THEN RelayReturn(st1, FALSE)
       ELSE IF st1.sent < st.content_length THEN st1
       ELSE RelayReturn(st1, TRUE)
  ELSE IF st.pc = "until_eof" THEN
    [st EXCEPT !.out = @ \o st.buf, !.buf = <<>>]
  ELSE IF st.pc = "chunk_line" THEN
    LET line_end == find(st.buf, CRLF, st.cursor)
        size == chunk_size_of(substr(st.buf, st.cursor, line_end - st.cursor))
        chunk_prefix == line_end + 2
    IN IF line_end = npos THEN st
       ELSE IF size < 0 THEN RelayReturn(st, FALSE)
       ELSE relay_run([st EXCEPT !.pc = "chunk_need", !.chunk_size = size,
                                 !.need = wrap(chunk_prefix + size + 2)])
  ELSE IF st.pc = "chunk_need" THEN
    IF Len(st.buf) < st.need THEN st
    ELSE IF substr(st.buf, wrap(st.need - 2), 2) # CRLF THEN RelayReturn(st, FALSE)
    ELSE LET st1 == [st EXCEPT !.out = @ \o substr(st.buf, st.cursor, wrap(st.need - st.cursor)),
                               !.cursor = st.need]
         IN IF st.chunk_size = 0
            THEN relay_run([st1 EXCEPT !.pc = "chunk_trailer"])
            ELSE relay_run([st1 EXCEPT !.pc = "chunk_line"])
  ELSE IF st.pc = "chunk_trailer" THEN
    LET trailer_end == find(st.buf, CRLFCRLF, st.cursor)
        end == trailer_end + 4
    IN IF trailer_end = npos THEN st
       ELSE RelayReturn([st EXCEPT !.out = @ \o substr(st.buf, st.cursor, end - st.cursor)],
                        end = Len(st.buf))
  ELSE st

RelayWaits(st) ==
  st.pc \in {"head", "length_body", "until_eof", "chunk_line", "chunk_need",
             "chunk_trailer"}

\* The responses an upstream sends, each well-formed under the framing its
\* head declares.
Chunk1 == <<"1">> \o CRLF \o <<"z">> \o CRLF
Chunk2 == <<"2">> \o CRLF \o <<"z", "z">> \o CRLF
LastChunk == <<"0">> \o CRLF
TrailerLine == <<"T">> \o CRLF

ChunkedBodies ==
  {chunks \o LastChunk \o trailers \o CRLF :
     chunks \in {<<>>, Chunk1, Chunk2 \o Chunk1},
     trailers \in {<<>>, TrailerLine}}

ResponseHead(k, close) == <<k>> \o (IF close THEN <<"X">> ELSE <<>>) \o CRLFCRLF

Responses ==
  UNION {{ResponseHead("C", close) \o b : b \in ChunkedBodies}
         \cup {ResponseHead("L", close) \o [i \in 1..ContentLengthOfL |-> "z"],
               ResponseHead("N", close),
               ResponseHead("U", close) \o <<"z", "z">>} : close \in BOOLEAN}

\* A response whose upstream sends one byte more than its Content-Length.
OverlongResponse ==
  ResponseHead("L", FALSE) \o [i \in 1..(ContentLengthOfL + 1) |-> "z"]

\* Responses without a body by status or request method whose heads declare
\* a framing all the same, alone or with bytes after the head.
NoBodyResponses ==
  {<<k, mark>> \o CRLFCRLF \o after :
     k \in {"N", "I", "H"}, mark \in {"l", "c"}, after \in {<<>>, <<"z", "z">>}}

\* recv on the upstream socket returns the next n bytes.
UpstreamRecv(n) ==
  /\ RelayWaits(rl)
  /\ n \in 1..Len(upstream_wire)
  /\ rl' = relay_run([rl EXCEPT !.buf = rl.buf \o SubSeq(upstream_wire, 1, n)])
  /\ upstream_wire' = SubSeq(upstream_wire, n + 1, Len(upstream_wire))
  /\ UNCHANGED <<extVars, proxyVars, admVars, rdVars, upstream_sent>>

\* recv returns 0 or fails: the upstream closed, or sent nothing for
\* upstream_io_timeout_ms.
UpstreamRecvFails ==
  /\ RelayWaits(rl)
  /\ rl' = RelayReturn(rl, FALSE)
  /\ UNCHANGED <<extVars, proxyVars, admVars, rdVars, upstream_wire, upstream_sent>>

InitRelayIdle ==
  /\ upstream_wire = <<>>
  /\ upstream_sent = <<>>
  /\ rl = [RelayEntry EXCEPT !.pc = "done"]

InitRelay ==
  /\ upstream_sent \in Responses \cup NoBodyResponses \cup {OverlongResponse}
  /\ upstream_wire = upstream_sent
  /\ rl = RelayEntry

\* ------------------------------------- handle_client: one client's session
\* One client connection from the first read_request to close(client_fd).
\* The pool is reduced to what the iteration gets from it (a socket or none);
\* the relay of a forwarded request is relay_run on the response the upstream
\* sends.

\* The request line's version, lower-cased, and the tokens that occur in the
\* Connection header's value.
Versions == {"http/1.1", "http/1.0", "http/2"}
ConnectionTokens == {"close", "keep-alive"}

request_wants_keepalive(version, connection) ==
  LET connection_close == "close" \in connection
      connection_keepalive == "keep-alive" \in connection
  IN IF version = "http/1.1" THEN ~connection_close
     ELSE IF version = "http/1.0" THEN connection_keepalive
     ELSE FALSE

\* Where read_request stops and why: in the header loop, in the
\* Content-Length body loop or in decode_chunked_body, on recv returning 0
\* (eof), recv failing (recv_error), or bytes that do not parse (malformed);
\* "complete" is a request read to its end.
ReadStops ==
  {[at |-> "header", what |-> w] : w \in {"eof", "recv_error", "malformed"}}
  \cup {[at |-> "length_body", what |-> w] : w \in {"eof", "recv_error"}}
  \cup {[at |-> "chunked_body", what |-> w] : w \in {"eof", "recv_error", "malformed"}}
  \cup {[at |-> "end", what |-> "complete"]}

\* The error string read_request leaves ("" when it returns true).
read_request_error(stop) ==
  IF stop.what = "complete" THEN ""
  ELSE IF stop.at = "header"
  THEN IF stop.what = "eof" THEN "client closed before request"
       ELSE IF stop.what = "recv_error" THEN "recv failed"
       ELSE "invalid request line"
  ELSE IF stop.at = "length_body" THEN "client closed before full request body"
  ELSE IF stop.what = "eof" THEN "client closed connection"
       ELSE IF stop.what = "recv_error" THEN "recv failed"
       ELSE "invalid chunk size"

\* handle_client after read_request failed: is a 400 written?
parse_error_gets_400(parse_error) ==
  /\ parse_error # ""
  /\ parse_error # "client closed before request"
  /\ parse_error # "client closed connection"

\* What a request asks for: the health path, no Host header, a host without
\* a route, a route whose target does not parse, a routed request, or a
\* routed upgrade request.
Targets == {"health", "no_host", "no_route", "bad_target", "route", "upgrade"}

\* What the iteration gets from connect_upstream or the pool and from
\* send_all of the request (after the one retry, where there is one).
UpstreamResults == {"ok", "connect_timeout", "connect_failed", "send_failed"}

\* before_upstream with the health response's send_all result ignored.
before_upstream_health_unsent(target, wants_keepalive, sent) ==
  IF target = "health"
  THEN [status |-> 200, next |-> IF ~wants_keepalive THEN "break" ELSE "continue"]
  ELSE IF target = "no_host" THEN [status |-> 400, next |-> "break"]
  ELSE IF target = "no_route" THEN [status |-> 404, next |-> "break"]
  ELSE IF target = "bad_target" THEN [status |-> 502, next |-> "break"]
  ELSE [status |-> 0, next |-> "upstream"]

\* before_upstream with the break after the 404 left out.
before_upstream_404_continues(target, wants_keepalive, sent) ==
  IF target = "health"
  THEN [status |-> 200, next |-> IF ~sent \/ ~wants_keepalive THEN "break" ELSE "continue"]
  ELSE IF target = "no_host" THEN [status |-> 400, next |-> "break"]
  ELSE IF target = "no_route" THEN [status |-> 404, next |-> "continue"]
  ELSE IF target = "bad_target" THEN [status |-> 502, next |-> "break"]
  ELSE [status |-> 0, next |-> "upstream"]

\* handle_client from the health check to parse_host_port: the status of the
\* response the proxy writes itself (0: none) and where the iteration goes.
before_upstream(target, wants_keepalive, sent) ==
  IF target = "health"
  THEN [status |-> 200, next |-> IF ~sent \/ ~wants_keepalive THEN "break" ELSE "continue"]
  ELSE IF target = "no_host" THEN [status |-> 400, next |-> "break"]
  ELSE IF target = "no_route" THEN [status |-> 404, next |-> "break"]
  ELSE IF target = "bad_target" THEN [status |-> 502, next |-> "break"]
  ELSE [status |-> 0, next |-> "upstream"]

\* handle_client from the choice of the upstream socket to the request sent.
with_upstream(target, up) ==
  IF up = "connect_timeout" THEN [status |-> 504, next |-> "break"]
  ELSE IF up = "connect_failed" THEN [status |-> 502, next |-> "break"]
  ELSE IF up = "send_failed" THEN [status |-> 502, next |-> "break"]
  ELSE [status |-> 0, next |-> IF target = "upgrade" THEN "tunnel" ELSE "relay"]

\* The keep-alive decision that ends an iteration with a relay.
loop_continues(client_wants_keepalive, client_can_keepalive) ==
  client_wants_keepalive /\ client_can_keepalive

\* A 502 written to the client when the relay did not end well.
response_after_relay_502(upstream_reusable) == IF upstream_reusable THEN 0 ELSE 502

\* The status of the response handle_client writes itself after
\* relay_response_and_decide_reuse returned (0: none).
response_after_relay(upstream_reusable) == 0

\* The session's state. status is the status of the response the proxy wrote
\* itself in the iteration (0: none), sent whether send_all wrote that response
\* whole, pending whether bytes of a further
\* request are buffered, upstream what became of the iteration's upstream
\* socket, continued whether the last iteration ended by going round the loop.
NoSess ==
  [pc |-> "none", stop |-> [at |-> "end", what |-> "complete"], target |-> "health",
   version |-> "http/1.1", connection |-> {}, client_wants_keepalive |-> FALSE,
   pending |-> FALSE, status |-> 0, sent |-> TRUE, upstream |-> "none",
   continued |-> FALSE]

\* The responses an upstream sends in a session: those of Responses, one
\* whose status line does not parse, and a final response that follows an
\* interim 100 Continue.
MalformedResponse == <<"M">> \o CRLFCRLF
InterimThenFinal ==
  ResponseHead("I", FALSE) \o ResponseHead("L", FALSE) \o [i \in 1..ContentLengthOfL |-> "z"]
SessResponses == Responses \cup {MalformedResponse, InterimThenFinal}

SessIdleRelay ==
  /\ rl' = [RelayEntry EXCEPT !.pc = "done"]
  /\ upstream_wire' = <<>>
  /\ upstream_sent' = <<>>

\* One iteration of the loop from read_request to the request sent upstream
\* (or to the break or continue before that).
SessRead ==
  /\ sess.pc = "read"
  /\ g_running
  /\ \E stop \in ReadStops, target \in Targets, version \in Versions,
        connection \in SUBSET ConnectionTokens, pending \in BOOLEAN,
        sent \in BOOLEAN, up \in UpstreamResults :
       LET parse_error == read_request_error(stop)
           wants == request_wants_keepalive(version, connection)
           b == before_upstream(target, wants, sent)
           u == with_upstream(target, up)
           r == IF parse_error # ""
                THEN [status |-> IF parse_error_gets_400(parse_error) THEN 400 ELSE 0,
                      next |-> "break"]
                ELSE IF b.next = "upstream" THEN u ELSE b
           s1 == [sess EXCEPT !.stop = stop, !.status = r.status, !.sent = sent,
                              !.continued = r.next = "continue"]
           s2 == IF parse_error # "" THEN [s1 EXCEPT !.pending = FALSE]
                 ELSE [s1 EXCEPT !.target = target, !.version = version,
                                 !.connection = connection,
                                 !.client_wants_keepalive = wants,
                                 !.pending = pending]
       IN /\ parse_error # "" => target = "health" /\ version = "http/1.1"
                                 /\ connection = {} /\ ~pending
          /\ (parse_error # "" \/ target # "health") => sent
          /\ (parse_error # "" \/ target \notin {"route", "upgrade"}) => up = "ok"
          /\ IF r.next = "relay"
             THEN /\ sess' = [s2 EXCEPT !.pc = "relay", !.upstream = "in_use"]
                  /\ rl' = RelayEntry
                  /\ upstream_sent' \in SessResponses
                  /\ upstream_wire' = upstream_sent'
             ELSE /\ SessIdleRelay
                  /\ sess' = IF r.next = "continue" THEN [s2 EXCEPT !.pc = "read"]
                             ELSE [s2 EXCEPT !.pc = "closed",
                                             !.upstream =
                                               IF r.next = "tunnel" THEN "closed"
                                               ELSE IF up = "send_failed" THEN "discarded"
                                               ELSE IF sess.upstream = "cached"
                                               THEN "released"
                                               ELSE "none"]
  /\ UNCHANGED <<lateVars, proxyVars, admVars, rdVars, poolUseVars, routes>>

\* The relay returned: the reuse decision, the keep-alive decision, and after
\* a break release_cached and close(client_fd).
SessAfterRelay ==
  /\ sess.pc = "relay"
  /\ rl.pc = "done"
  /\ LET reusable == rl.upstream_reusable
         client_can_keepalive == rl.upstream_reusable
         goes_on == loop_continues(sess.client_wants_keepalive, client_can_keepalive)
     IN sess' = [sess EXCEPT !.pc = IF goes_on THEN "read" ELSE "closed",
                             !.status = response_after_relay(reusable),
                             !.continued = goes_on,
                             !.upstream = IF ~reusable THEN "discarded"
                                          ELSE IF goes_on THEN "cached" ELSE "released"]
  /\ UNCHANGED <<lateVars, proxyVars, admVars, rdVars, rlVars, poolUseVars, routes>>

\* The while condition of handle_client fails after shutdown: the session
\* ends with release_cached and close(client_fd).
SessLoopEnd ==
  /\ sess.pc = "read"
  /\ ~g_running
  /\ sess' = [sess EXCEPT !.pc = "closed", !.status = 0, !.continued = FALSE,
                          !.pending = FALSE,
                          !.upstream = IF sess.upstream = "cached" THEN "released"
                                       ELSE "none"]
  /\ UNCHANGED <<lateVars, proxyVars, admVars, rdVars, rlVars, poolUseVars, routes>>

\* main after its accept loop: accept fails on the closed listener or the
\* loop condition fails, the pid file is removed and main returns. The
\* handler threads are detached, so the process ends with main, whatever the
\* handlers are doing.
MainExit ==
  /\ ~g_running
  /\ acc_pc = "accept"
  /\ acc_pc' = "exited"
  /\ UNCHANGED <<extVars, proxyVars, rdVars, rlVars, g_active_clients,
                 g_overload_rejections, prev, client_fd, clients, health_read>>

\* No thread runs once the process has ended.
ProcessAlive == acc_pc # "exited"

InitSessIdle == sess = NoSess

InitSess == sess = [NoSess EXCEPT !.pc = "read"]

\* ------------------------------------------- the pool and its callers' sockets
\* The pool under calls of acquire, release and discard in any order, with
\* the time since each open descriptor's connection was established. p_last
\* describes the call the step just taken made, if it made one.

\* No pool call has been made yet.
NoCall == [op |-> "none", fd |-> NoFd, from_idle |-> FALSE, age |-> 0, seen |-> "none",
           added |-> FALSE]

\* The time since connect, counted up to one unit past pool_max_age.
age_after_tick(age) == IF age > g_pool_max_age THEN age ELSE age + 1

\* The ages after a pool call: a descriptor that was closed or newly
\* connected starts from zero.
ages_after(ages, open, open2) ==
  [f \in FDs |-> IF f \in open2 /\ f \in open THEN ages[f] ELSE 0]

\* The key the pool's callers use.
PoolKeys == {"k1"}

\* The sockets handlers hold: a handler holds one upstream socket at a time
\* (the cached one or the one of its iteration).
Held == {f \in FDs : p_held[f] # NoKey}

\* pool.acquire(key) by some handler: the socket it returns is the caller's.
PoolAcquire(key) ==
  /\ Cardinality(Held) < Cardinality(Handlers)
  /\ \E conn_ok \in BOOLEAN, dying \in SUBSET ConnFds(by_key[key]) :
      LET peer2 == PeerDying(fd_peer, dying)
          a == acquire(key, fd_peer, peer2, fd_open, by_key, idle_total, conn_ok)
      IN /\ SetPoolConnected(a, peer2, IF a.from_idle THEN NoFd ELSE a.fd, key)
         /\ fd_age' = ages_after(fd_age, fd_open, a.open)
         /\ p_held' = [f \in FDs |-> IF f = a.fd THEN key
                                     ELSE IF f \in a.open THEN p_held[f] ELSE NoKey]
         /\ p_last' = [op |-> "acquire", fd |-> a.fd, from_idle |-> a.from_idle,
                       age |-> IF a.from_idle THEN fd_age[a.fd] ELSE 0,
                       seen |-> IF a.from_idle THEN peer2[a.fd] ELSE "none",
                       added |-> FALSE]
  /\ exit_event' = NoEvent
  /\ UNCHANGED <<lateVars, routes, sessVars, admVars, rdVars, rlVars, g_running, handlerVars>>

\* pool.release(key, f) of a socket a handler holds.
PoolRelease(f) ==
  /\ p_held[f] # NoKey
  /\ LET r == release(p_held[f], f, fd_peer, fd_open, by_key, idle_total)
     IN /\ SetPool(r, fd_peer)
        /\ fd_age' = ages_after(fd_age, fd_open, r.open)
        /\ p_held' = [p_held EXCEPT ![f] = NoKey]
        /\ p_last' = [op |-> "release", fd |-> f, from_idle |-> FALSE, age |-> fd_age[f],
                      seen |-> fd_peer[f], added |-> f \in PoolFds(r.by_key)]
  /\ exit_event' = NoEvent
  /\ UNCHANGED <<lateVars, routes, sessVars, admVars, rdVars, rlVars, g_running, handlerVars>>

\* pool.discard(f) of a socket a handler holds.
PoolDiscard(f) ==
  /\ p_held[f] # NoKey
  /\ LET open == discard(f, fd_open)
     IN /\ fd_open' = open
        /\ fd_peer' = peer_after(fd_peer, open)
        /\ fd_key' = keys_after(fd_key, open, NoFd, NoKey)
        /\ fd_age' = ages_after(fd_age, fd_open, open)
  /\ p_held' = [p_held EXCEPT ![f] = NoKey]
  /\ p_last' = [NoCall EXCEPT !.op = "discard", !.fd = f]
  /\ exit_event' = NoEvent
  /\ evicted' = 0
  /\ UNCHANGED <<lateVars, routes, sessVars, admVars, rdVars, rlVars, g_running, handlerVars, by_key, idle_total>>

\* The clock advances by one unit: every connection is one unit older.
PoolTick ==
  /\ by_key' = [k \in Keys |-> [i \in 1..Len(by_key[k]) |-> older(by_key[k][i])]]
  /\ fd_age' = [f \in FDs |-> IF f \in fd_open THEN age_after_tick(fd_age[f]) ELSE 0]
  /\ exit_event' = NoEvent
  /\ evicted' = 0
  /\ p_last' = NoCall
  /\ UNCHANGED <<lateVars, routes, sessVars, admVars, rdVars, rlVars, g_running, handlerVars, fd_open, fd_key, fd_peer,
                 idle_total, p_held>>

\* An upstream closes or sends bytes unasked on a connection.
PoolPeerChange(f) ==
  /\ f \in fd_open
  /\ fd_peer[f] = "clean"
  /\ fd_peer' = [fd_peer EXCEPT ![f] = "dirty"]
  /\ exit_event' = NoEvent
  /\ evicted' = 0
  /\ p_last' = NoCall
  /\ UNCHANGED <<lateVars, routes, sessVars, admVars, rdVars, rlVars, g_running, handlerVars, fd_open, fd_key, by_key,
                 idle_total, fd_age, p_held>>

InitPoolIdle ==
  /\ fd_age = [f \in FDs |-> 0]
  /\ p_held = [f \in FDs |-> NoKey]
  /\ p_last = NoCall

\* ----------------------------------------------- the process's open sockets
\* Admission together with the handlers' use of the pool: every handler that
\* runs has its client socket and holds at most one upstream socket.

\* The connections whose handle_client has not returned yet.
Handling == {c \in Conns : clients[c].state = "handling"}

\* The client sockets that are open: accepted by main and not yet refused
\* with a 503 and closed, or in the hands of a handler.
ClientSockets == {c \in Conns : clients[c].state \in {"accepted", "refused", "handling"}}

\* main has at most one accepted connection it has not yet passed on or closed.
PendingAccepted == 1

\* handle_client that returns while it still holds an upstream socket.
owns_no_upstream_unchecked(held, handling) == TRUE

\* Can one of the handlers return? handle_client ends with release_cached and
\* holds no other upstream socket when it leaves the loop, so the sockets
\* that are held belong to the other handlers.
owns_no_upstream(held, handling) == held < handling

\* A handler gets its iteration's socket from the pool.
SockAcquire(key) ==
  /\ Cardinality(Held) < Cardinality(Handling)
  /\ PoolAcquire(key)

\* handle_client returns: its sockets are released or closed.
SockHandlerReturn(c) ==
  /\ owns_no_upstream(Cardinality(Held), Cardinality(Handling))
  /\ HandlerReturn(c)

\* -------------------------------------------------------------- RouteTable
\* The routes file is known by its version: version v has modification time
\* v and maps the host to target v. routes_ = 0 is the empty map of a table
\* that has not loaded the file. Two threads look the same host up.

RouteThreads == Handlers

\* RouteTable after construction, the file at its first version, and no
\* lookup made. recent: less than the reload check interval has passed since
\* last_reload_check_. lookups, prev_result, result: how many lookups
\* returned since the file last changed (counted up to two), and what the
\* last two returned.
NoRoutes ==
  [file |-> 1, routes_ |-> 0, mtime_ |-> 0, loaded_ |-> FALSE, recent |-> FALSE,
   pc |-> [t \in RouteThreads |-> "idle"],
   current |-> [t \in RouteThreads |-> 0],
   parsed |-> [t \in RouteThreads |-> 0],
   lookups |-> 0, prev_result |-> 0, result |-> 0]

RtGoto(t, pc) == [routes EXCEPT !.pc[t] = pc]

\* The rest of the state is not touched by the route table.
RtFrame == UNCHANGED <<lateVars, proxyVars, admVars, rdVars, rlVars, sessVars, poolUseVars>>

\* lookup(host) is called.
RtLookup(t) ==
  /\ routes.pc[t] = "idle"
  /\ routes' = RtGoto(t, "check")
  /\ RtFrame

\* reload_if_needed, first critical section: the rate limit.
RtCheck(t) ==
  /\ routes.pc[t] = "check"
  /\ routes' = IF routes.loaded_ /\ routes.recent THEN RtGoto(t, "find")
           ELSE [RtGoto(t, "stat") EXCEPT !.recent = TRUE]
  /\ RtFrame

\* last_write_time, and the second critical section: is the file's
\* modification time the one of the loaded map?
RtStat(t) ==
  /\ routes.pc[t] = "stat"
  /\ \E ec \in BOOLEAN :
       routes' = IF ec THEN RtGoto(t, "find")
             ELSE IF routes.loaded_ /\ routes.file = routes.mtime_ THEN RtGoto(t, "find")
             ELSE [RtGoto(t, "read") EXCEPT !.current[t] = routes.file]
  /\ RtFrame

\* The file is opened, read and parsed.
RtRead(t) ==
  /\ routes.pc[t] = "read"
  /\ \E opened \in BOOLEAN :
       routes' = IF ~opened THEN RtGoto(t, "find")
             ELSE [RtGoto(t, "publish") EXCEPT !.parsed[t] = routes.file]
  /\ RtFrame

\* The third critical section: the parsed map is published.
RtPublish(t) ==
  /\ routes.pc[t] = "publish"
  /\ routes' = [RtGoto(t, "find") EXCEPT !.routes_ = routes.parsed[t],
                                     !.mtime_ = routes.current[t],
                                     !.loaded_ = TRUE]
  /\ RtFrame

\* lookup's own critical section: routes_.find, and lookup returns.
RtFind(t) ==
  /\ routes.pc[t] = "find"
  /\ routes' = [RtGoto(t, "idle") EXCEPT !.prev_result = routes.result,
                                     !.result = routes.routes_,
                                     !.lookups = IF @ < 2 THEN @ + 1 ELSE @]
  /\ RtFrame

\* The routes file is rewritten: a new version with a new modification time.
RtFileChange ==
  /\ routes.file < MaxFileVersion
  /\ routes' = [routes EXCEPT !.file = @ + 1, !.lookups = 0, !.prev_result = 0, !.result = 0]
  /\ RtFrame

\* kDefaultRouteReloadCheckIntervalMs pass.
RtIntervalElapses ==
  /\ routes.recent
  /\ routes' = [routes EXCEPT !.recent = FALSE]
  /\ RtFrame

InitRoutes == routes = NoRoutes

InitAdmission ==
  /\ g_active_clients = 0
  /\ g_overload_rejections = 0
  /\ acc_pc = "accept"
  /\ prev = 0
  /\ client_fd = 0
  /\ clients = [c \in Conns |-> NoConn]
  /\ health_read = 0

InitProxy ==
  /\ g_running = TRUE
  /\ fd_open = {}
  /\ fd_peer = [f \in FDs |-> "none"]
  /\ fd_key = [f \in FDs |-> NoKey]
  /\ by_key = [k \in Keys |-> <<>>]
  /\ idle_total = 0
  /\ evicted = 0
  /\ h_pc = [h \in Handlers |-> "idle"]
  /\ cached_fd = [h \in Handlers |-> NoFd]
  /\ cached_key = [h \in Handlers |-> NoKey]
  /\ upstream_fd = [h \in Handlers |-> NoFd]
  /\ used_cached = [h \in Handlers |-> FALSE]
  /\ h_key = [h \in Handlers |-> NoKey]
  /\ h_upgrade = [h \in Handlers |-> FALSE]
  /\ client_open = [h \in Handlers |-> FALSE]
  /\ exit_event = NoEvent

\* ------------------------------------------- tunnel_bidirectional, pump_fd
\* The two pumps of a tunnel: pump_fd(a_fd, b_fd, done) in the handler thread
\* and pump_fd(b_fd, a_fd, done) in the thread upstream_to_client.

Pumps == {"client_to_upstream", "upstream_to_client"}
src(d) == IF d = "client_to_upstream" THEN "a_fd" ELSE "b_fd"
dst(d) == IF d = "client_to_upstream" THEN "b_fd" ELSE "a_fd"

\* The pump's loop goes on whatever the done flag says.
pump_loops_always(done) == TRUE

\* while (!done.load())
pump_loops(done) == ~done

NoTunnel ==
  [caller |-> "none", done |-> FALSE, pc |-> [d \in Pumps |-> "exited"],
   data |-> [d \in Pumps |-> 0], reads_after_done |-> [d \in Pumps |-> 0],
   shut_wr |-> {}, shut_rd |-> {}]

PumpGoto(d, pc) == [tun EXCEPT !.pc[d] = pc]

TunFrame ==
  UNCHANGED <<proxyVars, admVars, rdVars, rlVars, sessVars, poolUseVars, routes, lk>>

\* The test of the while loop.
PumpTest(d) ==
  /\ tun.pc[d] = "test"
  /\ tun' = PumpGoto(d, IF pump_loops(tun.done) THEN "recv" ELSE "store")
  /\ TunFrame

\* recv(src) returns: bytes, 0, an error, or EINTR.
PumpRecv(d, n) ==
  /\ tun.pc[d] = "recv"
  /\ n = "bytes" => tun.data[d] < MaxTunnelData
  /\ tun' = [PumpGoto(d, CASE n = "bytes" -> "send"
                            [] n = "eintr" -> "test"
                            [] OTHER -> "store")
              EXCEPT !.data[d] = IF n = "bytes" THEN @ + 1 ELSE @,
                     !.reads_after_done[d] = IF tun.done THEN @ + 1 ELSE @]
  /\ TunFrame

\* send_all(dst) of the bytes just read.
PumpSend(d, ok) ==
  /\ tun.pc[d] = "send"
  /\ tun' = PumpGoto(d, IF ok THEN "test" ELSE "store")
  /\ TunFrame

\* done.store(true)
PumpStore(d) ==
  /\ tun.pc[d] = "store"
  /\ tun' = [PumpGoto(d, "shut_wr") EXCEPT !.done = TRUE]
  /\ TunFrame

\* shutdown_quiet(dst, SHUT_WR)
PumpShutWr(d) ==
  /\ tun.pc[d] = "shut_wr"
  /\ tun' = [PumpGoto(d, "shut_rd") EXCEPT !.shut_wr = @ \cup {dst(d)}]
  /\ TunFrame

\* shutdown_quiet(src, SHUT_RD), and pump_fd returns.
PumpShutRd(d) ==
  /\ tun.pc[d] = "shut_rd"
  /\ tun' = [PumpGoto(d, "exited") EXCEPT !.shut_rd = @ \cup {src(d)}]
  /\ TunFrame

\* The caller's own pump_fd has returned and upstream_to_client.join() returns.
TunnelReturn ==
  /\ tun.caller = "tunnel"
  /\ \A d \in Pumps : tun.pc[d] = "exited"
  /\ tun' = [tun EXCEPT !.caller = "returned"]
  /\ TunFrame

\* handle_client: close(upstream_fd) after the tunnel.
TunnelClose ==
  /\ tun.caller = "returned"
  /\ tun' = [tun EXCEPT !.caller = "closed"]
  /\ TunFrame

InitTunnelIdle == tun = NoTunnel

InitTunnel ==
  tun = [NoTunnel EXCEPT !.caller = "tunnel", !.pc = [d \in Pumps |-> "test"]]

\* ------------------------------------- UpstreamPool: the lock mu_ in detail
\* acquire and release statement by statement, for the threads that call
\* them on one key. The idle list is reduced to its length; a probe
\* (socket_is_idle_usable) and connect_upstream are socket calls a thread is
\* inside of for a while.

LockThreads == Handlers
NoThread == 0

NoLock ==
  [mu_ |-> NoThread, pc |-> [t \in LockThreads |-> "idle"],
   read |-> [t \in LockThreads |-> 0], idle |-> 0,
   held |-> [t \in LockThreads |-> FALSE]]

LkFrame ==
  UNCHANGED <<proxyVars, admVars, rdVars, rlVars, sessVars, poolUseVars, routes, tun>>

\* A thread is inside a socket call: a probe's recv or connect.
InSocketCall(t) ==
  lk.pc[t] \in {"acquire_reap_probe", "acquire_pop_probe", "connect",
                "release_probe", "release_reap_probe"}

\* pool.acquire is called: the thread goes for the lock.
LkAcquire(t) ==
  /\ lk.pc[t] = "idle" /\ ~lk.held[t]
  /\ lk' = [lk EXCEPT !.pc[t] = "acquire_lock"]
  /\ LkFrame

\* pool.release is called: the probe before the lock.
LkRelease(t) ==
  /\ lk.pc[t] = "idle" /\ lk.held[t]
  /\ lk' = [lk EXCEPT !.pc[t] = "release_probe"]
  /\ LkFrame

\* release: socket_is_idle_usable(fd) returns; an unusable socket is closed.
LkReleaseProbe(t, usable) ==
  /\ lk.pc[t] = "release_probe"
  /\ lk' = IF usable THEN [lk EXCEPT !.pc[t] = "release_lock"]
            ELSE [lk EXCEPT !.pc[t] = "idle", !.held[t] = FALSE]
  /\ LkFrame

\* std::lock_guard lock(mu_), then reap_locked starts.
LkLock(t) ==
  /\ lk.pc[t] \in {"acquire_lock", "release_lock"}
  /\ lk.mu_ = NoThread
  /\ lk' = [lk EXCEPT !.mu_ = t, !.read[t] = 0,
                       !.pc[t] = IF lk.pc[t] = "acquire_lock" THEN "acquire_reap"
                                 ELSE "release_reap"]
  /\ LkFrame

\* reap_locked: the loop over the entries; after it acquire goes on to its
\* pop loop and release to its caps.
LkReapNext(t) ==
  /\ lk.pc[t] \in {"acquire_reap", "release_reap"}
  /\ lk' = IF lk.read[t] < lk.idle
            THEN [lk EXCEPT !.pc[t] = IF lk.pc[t] = "acquire_reap"
                                      THEN "acquire_reap_probe"
                                      ELSE "release_reap_probe"]
            ELSE [lk EXCEPT !.pc[t] = IF lk.pc[t] = "acquire_reap" THEN "acquire_pop"
                                      ELSE "release_push"]
  /\ LkFrame

\* reap_locked: the probe of one entry returns; a stale entry is closed.
LkReapProbe(t, keep) ==
  /\ lk.pc[t] \in {"acquire_reap_probe", "release_reap_probe"}
  /\ lk' = [lk EXCEPT !.pc[t] = IF lk.pc[t] = "acquire_reap_probe" THEN "acquire_reap"
                                 ELSE "release_reap",
                       !.read[t] = IF keep THEN @ + 1 ELSE @,
                       !.idle = IF keep THEN @ ELSE @ - 1]
  /\ LkFrame

\* acquire: the pop loop takes the last entry, or the list is empty and the
\* lock's scope ends.
LkPop(t) ==
  /\ lk.pc[t] = "acquire_pop"
  /\ lk' = IF lk.idle > 0
            THEN [lk EXCEPT !.pc[t] = "acquire_pop_probe", !.idle = @ - 1]
            ELSE [lk EXCEPT !.pc[t] = "connect", !.mu_ = NoThread]
  /\ LkFrame

\* acquire: the probe of the popped entry returns; a usable one is returned
\* (the lock's scope ends), another is closed.
LkPopProbe(t, usable) ==
  /\ lk.pc[t] = "acquire_pop_probe"
  /\ lk' = IF usable
            THEN [lk EXCEPT !.pc[t] = "idle", !.held[t] = TRUE, !.mu_ = NoThread]
            ELSE [lk EXCEPT !.pc[t] = "acquire_pop"]
  /\ LkFrame

\* acquire: connect_upstream returns.
LkConnect(t, ok) ==
  /\ lk.pc[t] = "connect"
  /\ lk' = [lk EXCEPT !.pc[t] = "idle", !.held[t] = ok]
  /\ LkFrame

\* release: the caps, push_back or close, and the lock's scope ends.
LkPush(t) ==
  /\ lk.pc[t] = "release_push"
  /\ lk' = [lk EXCEPT !.pc[t] = "idle", !.held[t] = FALSE, !.mu_ = NoThread,
                       !.idle = IF lk.idle >= g_pool_max_idle_total
                                   \/ lk.idle >= g_pool_max_idle_per_key
                                THEN @ ELSE @ + 1]
  /\ LkFrame

InitLockIdle == lk = NoLock

InitExtIdle ==
  InitSessIdle /\ InitPoolIdle /\ InitRoutes /\ InitTunnelIdle /\ InitLockIdle

Init == InitProxy /\ InitAdmission /\ InitReaderIdle /\ InitRelayIdle /\ InitExtIdle

Next ==
  \/ \E h \in Handlers : Spawn(h)
  \/ \E h \in Handlers : EndBeforeUpstream(h)
  \/ \E h \in Handlers : HealthKeepAlive(h)
  \/ \E h \in Handlers : RouteCached(h)
  \/ \E h \in Handlers : RouteOther(h)
  \/ \E h \in Handlers : Acquire(h)
  \/ \E h \in Handlers : Tunnel(h)
  \/ \E h \in Handlers : Relay(h)
  \/ \E f \in FDs : PeerChange(f)
  \/ Tick

Spec == Init /\ [][Next]_vars

\* The accept loop and the handler threads' slots.
AdmNext ==
  \/ Accept
  \/ TryAcquireFetchAdd
  \/ TryAcquireUndo
  \/ TryAcquireCount
  \/ Reject503
  \/ StartHandler
  \/ \E c \in Conns : HandlerHealth(c)
  \/ \E c \in Conns : HandlerReturn(c)
  \/ \E c \in Conns : SlotGuardRelease(c)

AdmSpec == Init /\ [][AdmNext]_vars

\* One client connection's requests, read and served one after the other.
ReaderInit == InitProxy /\ InitAdmission /\ InitReader /\ InitRelayIdle /\ InitExtIdle

ReaderNext ==
  \/ \E n \in 1..MaxRecv : ClientRecv(n)
  \/ ClientClosed
  \/ ServeRequest

ReaderSpec == ReaderInit /\ [][ReaderNext]_vars

\* One response relayed from the upstream to the client.
RelayInit == InitProxy /\ InitAdmission /\ InitReaderIdle /\ InitRelay /\ InitExtIdle

RelayNext ==
  \/ \E n \in 1..MaxRecv : UpstreamRecv(n)
  \/ UpstreamRecvFails

RelaySpec == RelayInit /\ [][RelayNext]_vars

\* One client's session: the loop of handle_client and its relays.
SessInit ==
  /\ InitProxy /\ InitAdmission /\ InitReaderIdle /\ InitRelayIdle /\ InitSess
  /\ InitPoolIdle /\ InitRoutes /\ InitTunnelIdle /\ InitLockIdle

SessNext ==
  \/ SessRead
  \/ \E n \in 1..MaxRecv : UpstreamRecv(n)
  \/ UpstreamRecvFails
  \/ SessAfterRelay

SessSpec == SessInit /\ [][SessNext]_vars

\* One client's session while the process is shut down.
ShutNext ==
  \/ ProcessAlive /\ SessRead
  \/ ProcessAlive /\ \E n \in 1..MaxRecv : UpstreamRecv(n)
  \/ ProcessAlive /\ UpstreamRecvFails
  \/ ProcessAlive /\ SessAfterRelay
  \/ ProcessAlive /\ SessLoopEnd
  \/ Shutdown
  \/ MainExit

ShutSpec == SessInit /\ [][ShutNext]_vars

\* The pool, called by handlers in any order, and the connections' ages.
PoolNext ==
  \/ \E k \in PoolKeys : PoolAcquire(k)
  \/ \E f \in FDs : PoolRelease(f)
  \/ \E f \in FDs : PoolDiscard(f)
  \/ \E f \in FDs : PoolPeerChange(f)
  \/ PoolTick

PoolSpec == Init /\ [][PoolNext]_vars

\* Admission and the handlers' sockets.
SockNext ==
  \/ Accept
  \/ TryAcquireFetchAdd
  \/ TryAcquireUndo
  \/ TryAcquireCount
  \/ Reject503
  \/ StartHandler
  \/ \E c \in Conns : SockHandlerReturn(c)
  \/ \E c \in Conns : SlotGuardRelease(c)
  \/ \E k \in Keys : SockAcquire(k)
  \/ \E f \in FDs : PoolRelease(f)
  \/ \E f \in FDs : PoolDiscard(f)

SockSpec == Init /\ [][SockNext]_vars

\* The route table under concurrent lookups and changes of the routes file.
RouteNext ==
  \/ \E t \in RouteThreads : RtLookup(t)
  \/ \E t \in RouteThreads : RtCheck(t)
  \/ \E t \in RouteThreads : RtStat(t)
  \/ \E t \in RouteThreads : RtRead(t)
  \/ \E t \in RouteThreads : RtPublish(t)
  \/ \E t \in RouteThreads : RtFind(t)
  \/ RtFileChange
  \/ RtIntervalElapses

RouteSpec == Init /\ [][RouteNext]_vars

\* A tunnel from the start of tunnel_bidirectional to close(upstream_fd).
TunnelInit ==
  /\ InitProxy /\ InitAdmission /\ InitReaderIdle /\ InitRelayIdle
  /\ InitSessIdle /\ InitPoolIdle /\ InitRoutes /\ InitTunnel /\ InitLockIdle

TunnelNext ==
  \/ \E d \in Pumps : PumpTest(d)
  \/ \E d \in Pumps, n \in {"bytes", "eof", "error", "eintr"} : PumpRecv(d, n)
  \/ \E d \in Pumps, ok \in BOOLEAN : PumpSend(d, ok)
  \/ \E d \in Pumps : PumpStore(d)
  \/ \E d \in Pumps : PumpShutWr(d)
  \/ \E d \in Pumps : PumpShutRd(d)
  \/ TunnelReturn
  \/ TunnelClose

TunnelSpec == TunnelInit /\ [][TunnelNext]_vars

\* Threads calling pool.acquire and pool.release, statement by statement.
LockNext ==
  \/ \E t \in LockThreads : LkAcquire(t)
  \/ \E t \in LockThreads : LkRelease(t)
  \/ \E t \in LockThreads, usable \in BOOLEAN : LkReleaseProbe(t, usable)
  \/ \E t \in LockThreads : LkLock(t)
  \/ \E t \in LockThreads : LkReapNext(t)
  \/ \E t \in LockThreads, keep \in BOOLEAN : LkReapProbe(t, keep)
  \/ \E t \in LockThreads : LkPop(t)
  \/ \E t \in LockThreads, usable \in BOOLEAN : LkPopProbe(t, usable)
  \/ \E t \in LockThreads, ok \in BOOLEAN : LkConnect(t, ok)
  \/ \E t \in LockThreads : LkPush(t)

LockSpec == Init /\ [][LockNext]_vars

\* ------------------------------------------------------------------ claims

\* How many idle-list entries hold descriptor f.
IdleCount(f) ==
  Cardinality({<<k, i>> \in Keys \X (1..MaxFd + 1) :
                 i <= Len(by_key[k]) /\ by_key[k][i].fd = f})

\* The upstream descriptors handler h refers to.
HandlerFds(h) == {cached_fd[h], upstream_fd[h]} \ {NoFd}

\* C1: every open upstream socket is owned by exactly one of the idle lists or
\* one handler: no socket is twice in the idle lists, no two handlers refer to
\* the same socket, and no handler refers to a socket that it has released to
\* the pool or that is closed.
C1_ExclusiveOwnership ==
  /\ \A f \in FDs : IdleCount(f) <= 1
  /\ \A h \in Handlers : HandlerFds(h) \subseteq fd_open
  /\ \A h \in Handlers : HandlerFds(h) \cap PoolFds(by_key) = {}
  /\ \A h1, h2 \in Handlers : h1 # h2 => HandlerFds(h1) \cap HandlerFds(h2) = {}
  /\ fd_open = PoolFds(by_key) \cup UNION {HandlerFds(h) : h \in Handlers}

\* A handler relays on one socket of a key while another socket of the same
\* key, released by the other handler, is idle in the pool.
C1_Witness ==
  \E h \in Handlers :
    /\ h_pc[h] = "relay"
    /\ upstream_fd[h] \in fd_open
    /\ Len(by_key[h_key[h]]) = 1
    /\ by_key[h_key[h]][1].fd # upstream_fd[h]

\* C2: idle_total never exceeds pool_max_idle_total and no key's idle list
\* ever holds more than pool_max_idle_per_key sockets.
C2_IdleCaps ==
  /\ idle_total <= g_pool_max_idle_total
  /\ \A k \in Keys : Len(by_key[k]) <= g_pool_max_idle_per_key

\* Releases have filled the pool (every key's list is at the per-key cap and
\* the total is at the total cap) and a handler holds one more socket that it
\* is about to release.
C2_Witness ==
  /\ idle_total = g_pool_max_idle_total
  /\ \A k \in Keys : Len(by_key[k]) = g_pool_max_idle_per_key
  /\ \E h \in Handlers : h_pc[h] = "read" /\ cached_fd[h] \in fd_open

\* C3: idle_total equals the sum over all keys of the lengths of their idle
\* lists (every step of the model is a whole critical section of the pool, so
\* every state is one in which the pool lock is free).
C3_IdleTotalIsSum == idle_total = SumLen(by_key, Keys)

\* A pool operation has just evicted an entry and an idle entry remains.
C3_Witness == evicted > 0 /\ idle_total > 0

\* C9 as claimed: a failed send on a reused socket (the cached one or one the
\* pool handed out from an idle list) is retried once on a second socket, and
\* a failed send on a freshly opened socket is answered 502 without a retry.
C9_RetryOnReusedSocket ==
  exit_event.sendfail =>
    /\ exit_event.origin \in {"cached", "idle"} => exit_event.retried
    /\ exit_event.origin = "fresh" => ~exit_event.retried

RECURSIVE SumNet(_)
\* Increments minus decrements, over the connections in cs.
SumNet(cs) ==
  IF cs = {} THEN 0
  ELSE LET c == CHOOSE x \in cs : TRUE
       IN clients[c].incs - clients[c].decs + SumNet(cs \ {c})

\* C4: for every accepted connection active_clients is incremented exactly
\* once and, when its handling has ended (by rejection or by the handler
\* thread's end), has been decremented exactly once, never more often and never
\* before the increment; the counter is the number of connections counted in
\* and not yet counted out, and is 0 when no connection is being handled.
C4_SlotCountedOnce ==
  /\ \A c \in Conns :
       /\ clients[c].incs <= 1
       /\ clients[c].decs <= clients[c].incs
       /\ clients[c].state \in {"handling", "returned"} =>
            clients[c].incs = 1 /\ clients[c].decs = 0
       /\ clients[c].state \in {"refused", "rejected", "closed"} =>
            clients[c].incs = 1 /\ clients[c].decs = 1
  /\ g_active_clients = SumNet(Conns)
  /\ (\A c \in Conns : clients[c].state \in {"none", "rejected", "closed"}) =>
       g_active_clients = 0

\* One connection was rejected, another was served to its end, and nothing
\* is being handled any more.
C4_Witness ==
  /\ \E c \in Conns : clients[c].state = "rejected"
  /\ \E c \in Conns : clients[c].state = "closed"
  /\ \A c \in Conns : clients[c].state \in {"rejected", "closed"}

\* C5 as claimed: in every reachable state, and in every value a health
\* request has read, active_clients <= max_active_clients.
C5_ActiveWithinMax ==
  /\ g_active_clients <= g_max_active_clients
  /\ health_read <= g_max_active_clients

\* The connections try_acquire_client_slot has refused.
Refused == {c \in Conns : clients[c].state \in {"refused", "rejected"}}

\* C6: a connection is refused (answered 503 and closed, no handler started
\* for it) exactly when max_active_clients handler threads were running as it
\* was counted in, and overload_rejections is the number of connections
\* refused so far.
C6_RejectAtLimit ==
  /\ \A c \in Conns :
       /\ c \in Refused => clients[c].busy = g_max_active_clients
       /\ clients[c].state \in {"handling", "returned", "closed"} =>
            clients[c].busy < g_max_active_clients
       /\ clients[c].state = "accepted" /\ acc_pc \in {"undo", "count"} =>
            clients[c].busy = g_max_active_clients
       /\ clients[c].state = "accepted" /\ acc_pc = "spawn" =>
            clients[c].busy < g_max_active_clients
  /\ g_overload_rejections = Cardinality(Refused)

\* A connection has been answered 503 while max_active_clients handlers run.
C6_Witness ==
  /\ \E c \in Conns : clients[c].state = "rejected"
  /\ Cardinality(RunningHandlers) = g_max_active_clients
  /\ g_overload_rejections = 1

\* C7 as claimed: the bytes of one connection are split between its requests
\* without loss, duplication or misattribution: each request served starts
\* where the one before it ended, and its body holds only bytes of its own
\* span of the stream.
C7_NoByteCrossesRequests ==
  \A i \in 1..Len(served) :
    /\ served[i].start = (IF i = 1 THEN 0 ELSE served[i - 1].end)
    /\ served[i].body_hi <= served[i].end
    /\ Len(served[i].body) <= served[i].end - served[i].start

\* The response is chunked and its head has no Connection: close.
ChunkedKeepAlive ==
  /\ upstream_sent # <<>>
  /\ upstream_sent[1] = "C"
  /\ upstream_sent[2] # "X"

\* C8 as claimed: once the upstream's last byte of a chunked response without
\* Connection: close has been received, the relay has returned, has reported
\* the body complete, has written exactly the bytes the upstream sent, and the
\* upstream socket is reusable.
C8_ChunkedRelayCompletes ==
  ChunkedKeepAlive /\ upstream_wire = <<>> =>
    /\ rl.pc = "done"
    /\ rl.complete
    /\ rl.out = upstream_sent
    /\ rl.upstream_reusable

\* C10 as claimed: when the relay has returned, the upstream socket is kept
\* for reuse exactly if the response had a declared framing, its head had no
\* Connection: close, and the whole body was relayed.
C10_ReuseIffComplete ==
  rl.pc = "done" /\ upstream_sent # <<>> =>
    (rl.upstream_reusable <=>
       /\ rl.kind \in {"no_body", "chunked", "length"}
       /\ ~rl.connection_close
       /\ upstream_wire = <<>>
       /\ rl.out = upstream_sent)

\* ---- claims about one client's session (SessSpec)

ProxyErrorStatus == {400, 404, 502, 504}

\* C11: the loop goes round to read another request only if the client asked
\* for keep-alive (HTTP/1.1 without Connection: close, or HTTP/1.0 with
\* Connection: keep-alive) and the response was relayed to its end, whole,
\* with no Connection: close in its head (for the health response: written
\* whole by the proxy); otherwise the iteration ends with the client socket
\* closed.
C11_KeepAliveOnlyIf ==
  /\ sess.continued =>
       /\ \/ sess.version = "http/1.1" /\ "close" \notin sess.connection
          \/ sess.version = "http/1.0" /\ "keep-alive" \in sess.connection
       /\ sess.target # "health" =>
            /\ rl.pc = "done" /\ rl.complete /\ ~rl.connection_close
            /\ rl.out = upstream_sent
  /\ (~sess.continued /\ sess.pc # "relay") =>
       sess.pc = "closed" \/ sess = [NoSess EXCEPT !.pc = "read"]

\* C12: when a request was read and handling it ended without any response
\* byte relayed to the client, the client has received a proxy error
\* response (400, 404, 502 or 504).
C12_ErrorResponseBeforeFirstByte ==
  (/\ sess.pc = "closed"
   /\ sess.stop.what = "complete"
   /\ sess.target \notin {"health", "upgrade"}
   /\ rl.out = <<>>) => sess.status \in ProxyErrorStatus

\* C13: once a byte of the relayed response is written to the client the
\* proxy writes no response of its own for that request, and a relay that
\* then fails leaves the client socket closed and the upstream socket
\* discarded.
C13_NoProxyResponseAfterFirstByte ==
  /\ rl.out # <<>> => sess.status = 0
  /\ (rl.out # <<>> /\ rl.pc = "done" /\ ~rl.complete /\ sess.pc # "relay") =>
       sess.pc = "closed" /\ sess.upstream = "discarded"

\* A relay failed after the head and part of the body went to the client.
C13_Witness ==
  /\ sess.pc = "closed" /\ rl.pc = "done" /\ ~rl.complete
  /\ Len(rl.out) > 0 /\ Len(rl.out) < Len(upstream_sent)

\* C14: after a proxy error response (400, 404, 502, 504) the loop does not
\* go round, whether or not bytes of a further request are buffered, and the
\* client socket is closed.
C14_ErrorResponseEndsSession ==
  sess.status \in ProxyErrorStatus => sess.pc = "closed" /\ ~sess.continued

\* A 404 was written while a pipelined request was buffered.
C14_Witness == sess.status = 404 /\ sess.pending /\ sess.pc = "closed"

\* C15: when recv on the client socket returns EOF or an error while
\* read_request collects the request head, no response is written; a 400 is
\* written only for a request that is malformed (or names no host).
C15_SilentOnClientDisconnect ==
  /\ (sess.stop.at = "header" /\ sess.stop.what \in {"eof", "recv_error"}) =>
       sess.status = 0
  /\ sess.status = 400 =>
       \/ sess.stop.what = "malformed"
       \/ sess.stop.what = "complete" /\ sess.target = "no_host"

\* ---- claims about the pool's calls (PoolSpec)

\* C16: acquire never hands out an idle socket whose connection was
\* established more than pool_max_age ago.
C16_MaxAgeRespected ==
  (p_last.op = "acquire" /\ p_last.from_idle) => p_last.age <= g_pool_max_age

\* C17 as stated: every socket acquire returns has passed the liveness probe
\* within that acquire call.
C17_EveryAcquiredSocketProbed ==
  (p_last.op = "acquire" /\ p_last.fd # NoFd) => p_last.seen = "clean"

\* C17, amended: every socket acquire returns from an idle list has passed
\* the liveness probe within that acquire call (a connection acquire opens
\* itself is returned unprobed), every socket release adds to an idle list
\* has passed the probe within that release call, and a socket the probe
\* rejects is closed: release closes it, and after acquire no idle socket
\* that its probes saw unusable is left in the pool.
C17_IdleSocketsProbed ==
  /\ (p_last.op = "acquire" /\ p_last.from_idle) => p_last.seen = "clean"
  /\ (p_last.op = "release" /\ p_last.added) => p_last.seen = "clean"
  /\ (p_last.op = "release" /\ p_last.seen # "clean") =>
       ~p_last.added /\ p_last.fd \notin fd_open
  /\ p_last.op = "acquire" =>
       \A f \in PoolFds(by_key) : fd_peer[f] = "clean"

\* Acquire handed out an idle socket that had been connected for a while, or
\* release closed a socket that had bytes pending or was at EOF.
C17_Witness ==
  \/ p_last.op = "acquire" /\ p_last.from_idle /\ p_last.seen = "clean"
     /\ p_last.age > 0
  \/ p_last.op = "release" /\ p_last.seen = "dirty" /\ p_last.fd \notin fd_open

\* ---- claims about shutdown (ShutSpec)

\* C18: the process ends only after the handler that was in flight at the
\* shutdown signal has run to completion: its response relayed, its upstream
\* socket released or closed, and the client socket closed.
C18_HandlersFinishBeforeExit ==
  acc_pc = "exited" => sess.pc = "closed"

\* ---- claims about the open sockets (SockSpec)

\* The sockets the claim counts: client sockets and upstream sockets (in
\* use, cached, or idle in the pool).
OpenSockets == Cardinality(ClientSockets) + Cardinality(fd_open)

C20_LookupsStable ==
  (routes.lookups = 2 /\ routes.prev_result = routes.file) => routes.result = routes.prev_result

\* C21: a chunked request is framed without regard to its Content-Length
\* header: read_request never rejects, at the head, a request whose head says
\* Transfer-Encoding: chunked, whatever Content-Length it carries beside it.
C21_ChunkedIgnoresContentLength ==
  (rd.pc = "failed" /\ find(rd.buf, CRLFCRLF, 0) # npos /\ ~rd.chunked)
    => rd.buf[1] # "P"

\* C22: for a response without a body by status or request method (HEAD, 204,
\* 304, 1xx other than 101) the relay forwards the head and nothing else,
\* whatever framing the head declares, and when no bytes followed the head
\* the upstream is reusable unless the head says Connection: close.
C22_NoBodyForwardsHeadOnly ==
  (rl.pc = "done" /\ rl.kind = "no_body") =>
    /\ rl.out = substr(upstream_sent, 0, find(upstream_sent, CRLFCRLF, 0) + 4)
    /\ (rl.buf = <<>> => rl.upstream_reusable = ~rl.connection_close)

\* C23: for a response framed by Content-Length k the relay writes the head
\* and then a prefix of at most k of the body bytes the upstream sent, it
\* reports the body complete only when exactly k body bytes were written,
\* and a relay that ended short of k bytes leaves the upstream non-reusable.
C23_LengthBodyExact ==
  rl.kind = "length" =>
    LET hdr_len == find(upstream_sent, CRLFCRLF, 0) + 4
        body_out == Len(rl.out) - hdr_len
    IN /\ body_out \in 0..rl.content_length
       /\ rl.out = substr(upstream_sent, 0, Len(rl.out))
       /\ (rl.pc = "done" /\ rl.complete) => body_out = rl.content_length
       /\ (rl.pc = "done" /\ body_out < rl.content_length) => ~rl.upstream_reusable

\* The upstream sent more than k body bytes, split so that a read ended at
\* the k-th: the relay wrote exactly k and reported the body complete.
C23_Witness ==
  /\ rl.pc = "done" /\ rl.kind = "length" /\ rl.complete
  /\ upstream_sent = OverlongResponse
  /\ Len(rl.out) = Len(upstream_sent) - 1

\* C24: read_request never accepts a request whose header block, the bytes
\* up to and with the first empty line, is longer than kMaxHeaderBytes,
\* however the client's bytes are split over the reads.
C24_OversizedHeadRejected ==
  rd.headers_len <= kMaxHeaderBytes

\* ---- claims about the upgrade path (Spec)

\* C25: an upgrade request first gives up the cached upstream (to the pool, or
\* closed where the pool does not keep it), then gets a socket that was not
\* open before and leaves the pool's lists alone; when the tunnel returns the
\* socket is closed, it is in no cache and in no idle list, and the handler's
\* loop has ended.
C25_UpgradeUsesFreshSocket ==
  [][\A h \in Handlers :
       /\ (h_pc[h] = "read" /\ h_pc'[h] = "acquire" /\ h_upgrade'[h]) =>
            /\ cached_fd'[h] = NoFd
            /\ cached_fd[h] >= 0 =>
                 (cached_fd[h] \in PoolFds(by_key') \/ cached_fd[h] \notin fd_open')
       /\ (h_pc[h] = "acquire" /\ h_pc'[h] = "tunnel") =>
            /\ h_upgrade[h]
            /\ upstream_fd'[h] \in fd_open' \ fd_open
            /\ by_key' = by_key
            /\ cached_fd'[h] = NoFd
       /\ h_pc[h] = "tunnel" =>
            /\ upstream_fd[h] \notin PoolFds(by_key)
            /\ \A g \in Handlers : cached_fd[g] # upstream_fd[h]
            /\ h_pc'[h] # "tunnel" =>
                 /\ h_pc'[h] = "idle"
                 /\ upstream_fd[h] \notin fd_open'
                 /\ upstream_fd[h] \notin PoolFds(by_key')
                 /\ \A g \in Handlers : cached_fd'[g] # upstream_fd[h]]_vars

\* A handler is in the tunnel of an upgrade while the pool holds an idle
\* socket for the same key.
C25_Witness ==
  \E h \in Handlers : h_pc[h] = "tunnel" /\ by_key[h_key[h]] # <<>>

\* ---- claims about the tunnel (TunnelSpec)

\* C26: a pump that has exited has set the done flag, shut down its
\* destination for writing and its source for reading; once the flag is set
\* a pump returns from recv at most once more; tunnel_bidirectional returns,
\* and the upstream socket is closed, only when both pumps have exited.
C26_TunnelEndsBothPumps ==
  /\ \A d \in Pumps :
       /\ tun.pc[d] \in {"shut_wr", "shut_rd", "exited"} => tun.done
       /\ (tun.caller # "none" /\ tun.pc[d] = "exited") =>
            (dst(d) \in tun.shut_wr /\ src(d) \in tun.shut_rd)
       /\ tun.reads_after_done[d] <= 1
  /\ tun.caller \in {"returned", "closed"} => \A d \in Pumps : tun.pc[d] = "exited"

\* The upstream socket is closed after a tunnel in which one pump still got
\* bytes from a read that returned after the other had set the flag.
C26_Witness ==
  /\ tun.caller = "closed"
  /\ \E d \in Pumps : tun.reads_after_done[d] = 1 /\ tun.data[d] > 0

\* ---- claims about the health path (SessSpec)

\* C27: an iteration whose request targets the health path writes a 200 and
\* starts no relay; it goes round the loop exactly when the client asked for
\* keep-alive and the response was written whole, and then the cached
\* upstream is as it was; when it ends the session instead, all that happens
\* to the cached upstream is the release_cached of the loop's exit.
C27_HealthInline ==
  [][(sess.pc = "read" /\ sess'.stop.what = "complete" /\ sess'.target = "health") =>
       /\ sess'.status = 200
       /\ sess'.pc \in {"read", "closed"}
       /\ rl'.pc = "done" /\ upstream_sent' = <<>> /\ upstream_wire' = <<>>
       /\ sess'.pc = "read" <=> (sess'.client_wants_keepalive /\ sess'.sent)
       /\ sess'.pc = "read" => sess'.upstream = sess.upstream
       /\ sess'.pc = "closed" =>
            sess'.upstream = IF sess.upstream = "cached" THEN "released" ELSE "none"
       /\ UNCHANGED <<poolVars, handlerVars, poolUseVars, routes>>]_vars

\* A health request was answered with keep-alive on a connection that holds
\* a cached upstream socket.
C27_Witness ==
  /\ sess.pc = "read" /\ sess.continued
  /\ sess.target = "health" /\ sess.stop.what = "complete"
  /\ sess.status = 200 /\ sess.upstream = "cached"

\* ---- claims about the pool's lock (LockSpec)

\* C28: no thread is inside a socket call (a probe's recv, a connect) while
\* it holds the pool's lock.
C28_NoSocketCallUnderLock ==
  \A t \in LockThreads : InSocketCall(t) => lk.mu_ # t

\* ---- claims about the end of a handler (Spec)

\* C29: a handler that has ended refers to no upstream socket and its client
\* socket is closed, a handler in its loop has its client socket open (the
\* socket is closed once, in the step that ends the handler), and every open
\* upstream socket is in an idle list of the pool or with a handler that is
\* still in its loop: what an ended handler had acquired or cached is in the
\* pool or closed.
C29_EndedHandlerOwnsNothing ==
  /\ \A h \in Handlers :
       /\ h_pc[h] = "idle" => (HandlerFds(h) = {} /\ ~client_open[h])
       /\ h_pc[h] # "idle" => client_open[h]
  /\ fd_open = PoolFds(by_key)
                 \cup UNION {HandlerFds(h) : h \in {g \in Handlers : h_pc[g] # "idle"}}

\* A handler has just ended with a failed send on its cached socket and a
\* failed retry, while the other handler holds a socket and the pool an idle
\* one.
C29_Witness ==
  /\ exit_event.sendfail /\ exit_event.retried
  /\ \E h, g \in Handlers : h_pc[h] = "idle" /\ h_pc[g] # "idle" /\ HandlerFds(g) # {}
  /\ idle_total > 0

\* ---- claims about upstream keys (Spec)

\* C30: after every step, each idle list holds only sockets connected to its
\* key, a cached socket is connected to its cached key, and a handler that
\* has written its request wrote it to a socket connected to the request's
\* key. The cached socket is the iteration's socket only when its key is the
\* request's; on another key release_cached hands it to pool.release, which
\* keeps it under its own key unless its probe fails or a cap is reached.
C30_RequestsGoToTheirKey ==
  [][/\ \A k \in Keys : \A i \in 1..Len(by_key'[k]) : fd_key'[by_key'[k][i].fd] = k
     /\ \A h \in Handlers :
          /\ cached_fd'[h] >= 0 => fd_key'[cached_fd'[h]] = cached_key'[h]
          /\ h_pc'[h] \in {"relay", "tunnel"} => fd_key'[upstream_fd'[h]] = h_key'[h]
          /\ (h_pc[h] = "read" /\ h_pc'[h] = "relay" /\ used_cached'[h]) =>
               (upstream_fd'[h] = cached_fd[h] /\ h_key'[h] = cached_key[h])
          /\ (h_pc[h] = "read" /\ h_pc'[h] = "acquire" /\ cached_fd[h] >= 0) =>
               LET r == reap_locked(fd_peer, by_key, idle_total)
               IN /\ cached_fd'[h] = NoFd
                  /\ \/ cached_fd[h] \in ConnFds(by_key'[cached_key[h]])
                     \/ ~socket_is_idle_usable(fd_peer, cached_fd[h])
                     \/ r.idle_total >= g_pool_max_idle_total
                     \/ Len(r.by_key[cached_key[h]]) >= g_pool_max_idle_per_key]_vars

\* A handler holds a cached socket of one key, gets a request for the other
\* key, and relays it on a socket of that key while its former cached socket
\* is idle in the pool under its own key.
C30_Witness ==
  \E h \in Handlers, k \in Keys :
    /\ h_pc[h] = "relay" /\ ~used_cached[h]
    /\ h_key[h] # k
    /\ fd_key[upstream_fd[h]] = h_key[h]
    /\ by_key[k] # <<>>
    /\ by_key[h_key[h]] = <<>>

\* ---- claims about the liveness of reused sockets (Spec)

\* C31: in every step in which a handler writes its request to an upstream
\* socket, the socket was connected in that step or is one the liveness
\* probe accepts (no unread byte, peer not closed) in the state the request
\* is written in; this holds for a socket from the idle lists and for the
\* handler's cached socket alike.
C31_SendsOnlyOnProbedSockets ==
  [][\A h \in Handlers :
       (h_pc[h] \in {"read", "acquire"} /\ h_pc'[h] \in {"relay", "tunnel"}) =>
         socket_is_idle_usable(fd_peer', upstream_fd'[h])]_vars

\* The part of C31 that holds: a socket that does not come from the cached
\* slot is new or answered the probe in the step that popped it from the
\* idle lists.
C31_IdleSocketsAreProbed ==
  [][\A h \in Handlers :
       (h_pc[h] \in {"read", "acquire"} /\ h_pc'[h] \in {"relay", "tunnel"}
        /\ ~used_cached'[h]) =>
         socket_is_idle_usable(fd_peer', upstream_fd'[h])]_vars

\* A handler has written its request to its cached socket after the peer of
\* that socket closed or sent bytes unasked.
C31_StaleCachedSocketUsed ==
  \E h \in Handlers :
    /\ h_pc[h] = "relay" /\ used_cached[h]
    /\ upstream_fd[h] = cached_fd[h]
    /\ ~socket_is_idle_usable(fd_peer, upstream_fd[h])

\* ---- claims about interim responses (SessSpec)

\* C32: when the relay of a forwarded request has returned and the handler
\* keeps the upstream socket for reuse (in its cached slot, or through
\* release_cached in the pool), one complete final response was relayed for
\* the request: every byte the upstream sent for it has been written to the
\* client, none is left unread on the socket to be taken for the answer to
\* the next request, and the response relayed is not an interim 1xx head
\* alone.
C32_OneFinalResponsePerRequest ==
  (/\ sess.pc \in {"read", "closed"}
   /\ sess.target = "route"
   /\ sess.upstream \in {"cached", "released"}
   /\ rl.pc = "done" /\ rl.out # <<>>) =>
     /\ upstream_wire = <<>>
     /\ rl.out = upstream_sent
     /\ rl.out # ResponseHead("I", FALSE)

\* The part of C32 that holds: when the upstream sends no interim response,
\* a socket is kept for reuse only after the whole response was relayed.
C32_HoldsWithoutInterim ==
  (/\ sess.pc \in {"read", "closed"}
   /\ sess.target = "route"
   /\ sess.upstream \in {"cached", "released"}
   /\ rl.pc = "done" /\ rl.out # <<>>
   /\ upstream_sent # InterimThenFinal) =>
     /\ upstream_wire = <<>>
     /\ rl.out = upstream_sent

\* The handler goes on to read the next request with the socket cached while
\* the final response to the last request is unread on that socket.
C32_FinalResponseLeftUnread ==
  /\ sess.pc = "read" /\ sess.continued /\ sess.upstream = "cached"
  /\ rl.out = ResponseHead("I", FALSE)
  /\ upstream_wire = ResponseHead("L", FALSE) \o [i \in 1..ContentLengthOfL |-> "z"]

\* ---- claims about the published route map (RouteSpec)

\* C33: the published route map never goes back in time: no step of any
\* thread replaces routes_ by a map parsed from an older version of the
\* routes file than the one routes_ was parsed from.
C33_PublishedMapNeverOlder ==
  [][routes.routes_ <= routes'.routes_]_vars

\* The part of C33 that holds: a publish installs the map its own thread
\* parsed, and a map is parsed from no older version than the one whose
\* modification time the thread read.
C33_PublishInstallsOwnParse ==
  [][\A t \in RouteThreads :
       (routes.pc[t] = "publish" /\ routes'.pc[t] = "find") =>
         /\ routes'.routes_ = routes.parsed[t]
         /\ routes'.mtime_ = routes.current[t]
         /\ routes.current[t] <= routes.parsed[t]]_vars

====
